---------------------------- MODULE Spec2Model ----------------------------
(***************************************************************************)
(* A model of the streaming response pipeline of the AI workspace:         *)
(*   - AIChat.handleSend (src/src/components/AIChat.tsx): the fetch, the   *)
(*     chunked body read, the line/frame loop, the delta accumulation and  *)
(*     the extraction of file actions from the assembled text;             *)
(*   - ProjectEditor.handleFileAction / loadFiles and the file             *)
(*     subscription (src/src/pages/ProjectEditor.tsx) against the          *)
(*     public.files table.                                                 *)
(*                                                                         *)
(* Text is a sequence of code points (integers), a body is a sequence of   *)
(* bytes (integers 0..255).  A literal is followed by the string it spells. *)
(***************************************************************************)
EXTENDS Integers, Sequences, FiniteSets, TLC

VARIABLES
    \* ---- AIChat state (useState cells) ----
    messages,          \* Message[]: sequence of [role, content]
    updaters,          \* setMessages updaters of the stream queued for the
                       \* next render
    isLoading,         \* boolean
    \* ---- one handleSend invocation ----
    pc,                \* "idle" | "fetch" | "read"
    script,            \* the responses the endpoint gives to the coming sends
    body,              \* the bytes of the response body being read
    offset,            \* number of bytes of body that read() has delivered
    pending,           \* TextDecoder state: [need, cp] of an unfinished character
    buffer,            \* let buffer
    assistantMessage,  \* let assistantMessage
    \* ---- observations of the run (history) ----
    ignored,           \* number of handleSend calls that returned at line 37
    preSend,           \* messages at the moment handleSend was entered
    userTurn,          \* the userMessage of the invocation
    payloads,          \* every jsonStr that reached line 86, in order
    deltas,            \* every content appended at line 93, in order
    doneSeen,          \* a '[DONE]' payload has been processed
    afterDone,         \* number of deltas appended after doneSeen
    toasts,            \* sequence of toast titles raised
    dispatched,        \* the actions handed to onFileAction, in order
    splitChar,         \* some chunk of this body ended inside a character
    outcome,           \* how the last send ended: "none", "ok", "rejected",
                       \* "status 402", "status 429", "status 500", "no body",
                       \* "read failed"
    \* ---- public.files of the open project ----
    db,                \* the persisted records: [id, path, content, language]
    nextId,            \* the number of records inserted so far, plus one
    \* ---- ProjectEditor state (useState cells) ----
    files,             \* FileItem[]
    selectedFile,      \* FileItem | null (NoFile)
    loading,           \* boolean
    \* ---- asynchronous work of ProjectEditor ----
    handler,           \* the render whose handleFileAction the running
                       \* handleSend holds: its files and selectedFile
    streaming,         \* a handleSend is between line 42 and line 113
    sends,             \* number of sends so far
    tasks,             \* calls of handleFileAction / loadFiles in flight
    notes,             \* change notifications on their way to the channel
    subscribed,        \* the channel of the effect has not been removed
    projectId,         \* useParams(): the project of the route
    \* ---- observations of the run (history) ----
    remotes,           \* number of writes of other clients so far
    log,               \* the persistence writes the store ran so far
    fileToasts,        \* sequence of toast titles raised by ProjectEditor
    \* ---- public.message and the edge functions ----
    messageRows,       \* the rows of public.message, in creation order
    runs,              \* the invocations of ai-message-processor
    call,              \* the request a serve handler (ai-code-assistant,
                       \* ai-responder) is working on
    sent,              \* the requests made to the AI gateway, in order
    answer             \* the Response the serve handler has returned

chatVars == <<messages, updaters, ignored, isLoading, pc, script, body, offset, pending, buffer,
              assistantMessage, preSend, userTurn, payloads, deltas, doneSeen,
              afterDone, toasts, dispatched, splitChar, outcome>>

fileVars == <<db, nextId, files, selectedFile, loading, handler, streaming, sends,
              tasks, notes, subscribed, projectId, remotes, log, fileToasts>>

edgeVars == <<messageRows, runs, call, sent, answer>>

vars == <<chatVars, fileVars, edgeVars>>

-----------------------------------------------------------------------------
(* Bounds of the model *)

\* the largest chunk read() delivers in the middle of a line
MaxChunk == 2
\* the number of lines of a response body
MaxLines == 3
\* the number of lines of a response body that are no Data frame with a delta
\* and no terminator
MaxSkipped == 1

-----------------------------------------------------------------------------
(* Text helpers (String.prototype) *)

NL == 10
CR == 13
REPLACEMENT == 65533

\* JS white space as String.prototype.trim sees it (the part that occurs here)
IsSpace(c) == c \in {9, 10, 11, 12, 13, 32, 160}

\* s.indexOf(c): the first position holding c; 0 when absent (1-based)
IndexOf(s, c) ==
    IF \E i \in 1..Len(s) : s[i] = c
    THEN CHOOSE i \in 1..Len(s) : s[i] = c /\ \A j \in 1..(i - 1) : s[j] # c
    ELSE 0

\* s.lastIndexOf(c): the last position holding c; 0 when absent
LastIndexOf(s, c) ==
    IF \E i \in 1..Len(s) : s[i] = c
    THEN CHOOSE i \in 1..Len(s) : s[i] = c /\ \A j \in (i + 1)..Len(s) : s[j] # c
    ELSE 0

StartsWith(s, p) ==
    /\ Len(s) >= Len(p)
    /\ SubSeq(s, 1, Len(p)) = p

EndsWith(s, p) ==
    /\ Len(s) >= Len(p)
    /\ SubSeq(s, Len(s) - Len(p) + 1, Len(s)) = p

\* s.slice(n) for 0 <= n
SliceFrom(s, n) == SubSeq(s, n + 1, Len(s))

RECURSIVE TrimLeft(_)
TrimLeft(s) ==
    IF s # <<>> /\ IsSpace(Head(s)) THEN TrimLeft(Tail(s)) ELSE s

RECURSIVE TrimRight(_)
TrimRight(s) ==
    IF s # <<>> /\ IsSpace(s[Len(s)])
    THEN TrimRight(SubSeq(s, 1, Len(s) - 1))
    ELSE s

Trim(s) == TrimRight(TrimLeft(s))

RECURSIVE Join(_)
\* the concatenation of a sequence of sequences
Join(ss) == IF ss = <<>> THEN <<>> ELSE Head(ss) \o Join(Tail(ss))

-----------------------------------------------------------------------------
(* TextDecoder("utf-8").decode(value, {stream: true})                       *)
(*                                                                         *)
(* The decoder keeps the unfinished character between calls: need is the   *)
(* number of continuation bytes still expected, cp the code point so far.  *)
(* One-, two- and three-byte sequences are decoded; any other lead byte    *)
(* and a misplaced continuation byte give U+FFFD.                          *)

DecoderInit == [need |-> 0, cp |-> 0]

\* the decoder's step for one byte: the state after it and the text emitted
DecodeByte(st, b) ==
    IF st.need = 0 \/ ~(b >= 128 /\ b <= 191)
    THEN \* a sequence interrupted by b gives U+FFFD, and b is read afresh
         LET pre == IF st.need = 0 THEN <<>> ELSE <<REPLACEMENT>> IN
         IF b < 128 THEN [st |-> DecoderInit, text |-> Append(pre, b)]
         ELSE IF b >= 194 /\ b <= 223
         THEN [st |-> [need |-> 1, cp |-> b - 192], text |-> pre]
         ELSE IF b >= 224 /\ b <= 239
         THEN [st |-> [need |-> 2, cp |-> b - 224], text |-> pre]
         ELSE [st |-> DecoderInit, text |-> Append(pre, REPLACEMENT)]
    ELSE LET cp == st.cp * 64 + (b - 128) IN
         IF st.need = 1
         THEN [st |-> DecoderInit, text |-> <<cp>>]
         ELSE [st |-> [need |-> st.need - 1, cp |-> cp], text |-> <<>>]

RECURSIVE DecodeRun(_, _, _)

\* the second half of the bytes decoded after the first (the test makes the
\* first half be evaluated first)
DecodeRight(bytes, left) ==
    IF left.st.need >= 0 THEN DecodeRun(bytes, left.st, left.text) ELSE left

\* the text so far with what one byte added
DecodeOne(out, r) == [text |-> out \o r.text, st |-> r.st]

\* the bytes decoded in order from state st (halving keeps the nesting small)
DecodeRun(bytes, st, out) ==
    IF bytes = <<>> THEN [text |-> out, st |-> st]
    ELSE IF Len(bytes) = 1 THEN DecodeOne(out, DecodeByte(st, bytes[1]))
    ELSE DecodeRight(SubSeq(bytes, Len(bytes) \div 2 + 1, Len(bytes)),
                     DecodeRun(SubSeq(bytes, 1, Len(bytes) \div 2), st, out))

\* the text a decoder without carry-over makes of an unfinished character
FlushDecoded(r) ==
    IF r.st.need = 0 THEN r
    ELSE [text |-> Append(r.text, REPLACEMENT), st |-> DecoderInit]

\* a decoder called without {stream: true}: an unfinished character at the
\* end of the chunk is emitted as U+FFFD and forgotten
DecodeNoStream(st, bytes) == FlushDecoded(DecodeRun(bytes, DecoderInit, <<>>))

Decode(st, bytes) == DecodeRun(bytes, st, <<>>)

-----------------------------------------------------------------------------
(* JSON.parse                                                              *)
(*                                                                         *)
(* A JSON value is a tagged record:                                        *)
(*   [t |-> "str", v |-> text]      [t |-> "num", v |-> the digits]        *)
(*   [t |-> "lit", v |-> "true" | "false" | "null"]                        *)
(*   [t |-> "arr", v |-> sequence of values]                               *)
(*   [t |-> "obj", v |-> sequence of [k |-> text, val |-> value]]          *)
(* and a parse result is [ok, val, pos], pos the position after the value. *)
(* Numbers are the non-negative integers; string escapes are the           *)
(* two-character ones (no \uXXXX).                                         *)

JStr(x) == [t |-> "str", v |-> x]
JNum(x) == [t |-> "num", v |-> x]
JLit(x) == [t |-> "lit", v |-> x]
JArr(x) == [t |-> "arr", v |-> x]
JObj(x) == [t |-> "obj", v |-> x]
JUndefined == [t |-> "undefined", v |-> <<>>]

Fail == [ok |-> FALSE, val |-> JUndefined, pos |-> 0]
Ok(val, pos) == [ok |-> TRUE, val |-> val, pos |-> pos]

\* JSON white space
IsJsonWs(c) == c \in {9, 10, 13, 32}

IsDigit(c) == c >= 48 /\ c <= 57

RECURSIVE SkipWs(_, _)
SkipWs(s, i) ==
    IF i <= Len(s) /\ IsJsonWs(s[i]) THEN SkipWs(s, i + 1) ELSE i

\* the character an escape \c stands for; 0 when \c is no escape
Unescape(c) ==
    CASE c = 34  -> 34      \* \"
      [] c = 92  -> 92      \* \\
      [] c = 47  -> 47      \* \/
      [] c = 110 -> 10      \* \n
      [] c = 114 -> 13      \* \r
      [] c = 116 -> 9       \* \t
      [] c = 98  -> 8       \* \b
      [] c = 102 -> 12      \* \f
      [] OTHER   -> 0

RECURSIVE ParseStringBody(_, _, _)
\* s[i..] after the opening quote
ParseStringBody(s, i, acc) ==
    IF i > Len(s) THEN Fail
    ELSE IF s[i] = 34 THEN Ok(JStr(acc), i + 1)
    ELSE IF s[i] = 92
         THEN IF i + 1 > Len(s) \/ Unescape(s[i + 1]) = 0 THEN Fail
              ELSE ParseStringBody(s, i + 2, Append(acc, Unescape(s[i + 1])))
    ELSE IF s[i] < 32 THEN Fail
    ELSE ParseStringBody(s, i + 1, Append(acc, s[i]))

RECURSIVE DigitsEnd(_, _)
DigitsEnd(s, i) ==
    IF i <= Len(s) /\ IsDigit(s[i]) THEN DigitsEnd(s, i + 1) ELSE i

NumberTo(s, i, e) ==
    IF e = i THEN Fail
    ELSE IF s[i] = 48 /\ e > i + 1 THEN Fail    \* no leading zero
    ELSE Ok(JNum(SubSeq(s, i, e - 1)), e)

ParseNumber(s, i) == NumberTo(s, i, DigitsEnd(s, i))

LiteralOf(r, i) ==
    IF StartsWith(r, <<116, 114, 117, 101>>) THEN Ok(JLit("true"), i + 4)
    ELSE IF StartsWith(r, <<102, 97, 108, 115, 101>>) THEN Ok(JLit("false"), i + 5)
    ELSE IF StartsWith(r, <<110, 117, 108, 108>>) THEN Ok(JLit("null"), i + 4)
    ELSE Fail

ParseLiteral(s, i) == LiteralOf(SliceFrom(s, i - 1), i)

RECURSIVE ParseValue(_, _)
RECURSIVE ParseElements(_, _, _)
RECURSIVE ParseMembers(_, _, _)

\* after an element: s[j] is ',' or ']'
ElementSep(s, acc, j) ==
    IF j > Len(s) THEN Fail
    ELSE IF s[j] = 44 THEN ParseElements(s, j + 1, acc)
    ELSE IF s[j] = 93 THEN Ok(JArr(acc), j + 1)
    ELSE Fail

AfterElement(s, acc, r) ==
    IF ~r.ok THEN Fail ELSE ElementSep(s, Append(acc, r.val), SkipWs(s, r.pos))

\* the elements of an array, s[i..] being the text of an element
ParseElements(s, i, acc) == AfterElement(s, acc, ParseValue(s, i))

\* after a member: s[j] is ',' or '}'
MemberSep(s, acc, j) ==
    IF j > Len(s) THEN Fail
    ELSE IF s[j] = 44 THEN ParseMembers(s, j + 1, acc)
    ELSE IF s[j] = 125 THEN Ok(JObj(acc), j + 1)
    ELSE Fail

AfterMember(s, acc, key, r) ==
    IF ~r.ok THEN Fail
    ELSE MemberSep(s, Append(acc, [k |-> key, val |-> r.val]), SkipWs(s, r.pos))

\* after a key: s[c] is ':'
MemberValue(s, acc, key, c) ==
    IF c > Len(s) \/ s[c] # 58 THEN Fail
    ELSE AfterMember(s, acc, key, ParseValue(s, c + 1))

AfterKey(s, acc, key) ==
    IF ~key.ok THEN Fail ELSE MemberValue(s, acc, key.val.v, SkipWs(s, key.pos))

\* s[k] is the opening quote of a key
MemberKey(s, acc, k) ==
    IF k > Len(s) \/ s[k] # 34 THEN Fail
    ELSE AfterKey(s, acc, ParseStringBody(s, k + 1, <<>>))

\* the members of an object, s[i..] being white space and then a key
ParseMembers(s, i, acc) == MemberKey(s, acc, SkipWs(s, i))

\* s[j] is the first character after '[' and white space
ArrayAt(s, j) ==
    IF j <= Len(s) /\ s[j] = 93 THEN Ok(JArr(<<>>), j + 1)
    ELSE ParseElements(s, j, <<>>)

\* s[j] is the first character after '{' and white space
ObjectAt(s, j) ==
    IF j <= Len(s) /\ s[j] = 125 THEN Ok(JObj(<<>>), j + 1)
    ELSE ParseMembers(s, j, <<>>)

\* s[i] is the first character of the value
ValueAt(s, i) ==
    IF i > Len(s) THEN Fail
    ELSE IF s[i] = 34 THEN ParseStringBody(s, i + 1, <<>>)
    ELSE IF s[i] = 91 THEN ArrayAt(s, SkipWs(s, i + 1))
    ELSE IF s[i] = 123 THEN ObjectAt(s, SkipWs(s, i + 1))
    ELSE IF IsDigit(s[i]) THEN ParseNumber(s, i)
    ELSE ParseLiteral(s, i)

ParseValue(s, i) == ValueAt(s, SkipWs(s, i))

\* the value is the whole text, but for white space
WholeText(s, r) ==
    IF r.ok /\ SkipWs(s, r.pos) = Len(s) + 1 THEN r ELSE Fail

\* JSON.parse(s): [ok |-> FALSE] stands for the SyntaxError it throws
JSONParse(s) == WholeText(s, ParseValue(s, 1))

RECURSIVE LookupFrom(_, _, _)
LookupFrom(mems, key, i) ==
    IF i = 0 THEN JUndefined
    ELSE IF mems[i].k = key THEN mems[i].val
    ELSE LookupFrom(mems, key, i - 1)

\* x.key of a parsed value that is not null (the last duplicate key wins)
Prop(x, key) ==
    IF x.t = "obj" THEN LookupFrom(x.v, key, Len(x.v)) ELSE JUndefined

\* x?.key
OptProp(x, key) ==
    IF x.t = "undefined" \/ (x.t = "lit" /\ x.v = "null") THEN JUndefined
    ELSE Prop(x, key)

\* x?.[0]: the first element of an array, the first character of a string
OptFirst(x) ==
    IF x.t = "arr" /\ Len(x.v) > 0 THEN x.v[1]
    ELSE IF x.t = "str" /\ Len(x.v) > 0 THEN JStr(<<x.v[1]>>)
    ELSE JUndefined

\* the truthiness of a value
Truthy(x) ==
    CASE x.t = "undefined" -> FALSE
      [] x.t = "lit"       -> x.v = "true"
      [] x.t = "str"       -> x.v # <<>>
      [] x.t = "num"       -> x.v # <<48>>
      [] OTHER             -> TRUE

\* String(x) as "+=" applies it
ToText(x) ==
    CASE x.t = "str" -> x.v
      [] x.t = "num" -> x.v
      [] x.t = "lit" -> IF x.v = "true" THEN <<116, 114, 117, 101>>
                        ELSE IF x.v = "false" THEN <<102, 97, 108, 115, 101>>
                        ELSE <<110, 117, 108, 108>>
      \* "[object Object]"
      [] x.t = "obj" -> <<91, 111, 98, 106, 101, 99, 116, 32, 79, 98, 106, 101, 99, 116, 93>>
      \* an array prints its elements; only the empty one occurs
      [] OTHER       -> <<>>

-----------------------------------------------------------------------------
(* AIChat.handleSend: the frame loop (lines 77-110)                        *)

\* "data: "
DataPrefix == <<100, 97, 116, 97, 58, 32>>
\* "[DONE]"
DoneSentinel == <<91, 68, 79, 78, 69, 93>>
\* "choices", "delta", "content"
KeyChoices == <<99, 104, 111, 105, 99, 101, 115>>
KeyDelta == <<100, 101, 108, 116, 97>>
KeyContent == <<99, 111, 110, 116, 101, 110, 116>>

Msg(role, content) == [role |-> role, content |-> content]

\* an updater that pushes a new assistant turn for every delta
SetAssistantAlwaysPush(prev, text) == Append(prev, Msg("assistant", text))

\* the updater of setMessages at lines 94-105
SetAssistant(prev, text) ==
    IF prev # <<>> /\ prev[Len(prev)].role = "assistant"
    THEN [prev EXCEPT ![Len(prev)] = Msg("assistant", text)]
    ELSE Append(prev, Msg("assistant", text))

\* parsed.choices?.[0]?.delta?.content of a parsed payload; [ok |-> FALSE]
\* when reading .choices of null throws
DeltaContent(parsed) ==
    IF parsed.t = "lit" /\ parsed.v = "null" THEN [ok |-> FALSE, val |-> JUndefined]
    ELSE [ok  |-> TRUE,
          val |-> OptProp(OptProp(OptFirst(Prop(parsed, KeyChoices)), KeyDelta),
                          KeyContent)]

\* an accumulator that keeps the last delta only
AppendDeltaReplace(st, delta) ==
    [st EXCEPT !.assistantMessage = delta,
               !.messages = SetAssistant(st.messages, delta),
               !.deltas = Append(st.deltas, delta),
               !.afterDone = IF st.doneSeen THEN st.afterDone + 1 ELSE st.afterDone]

\* lines 93-105: a delta appended and shown
AppendDelta(st, delta) ==
    [st EXCEPT !.assistantMessage = st.assistantMessage \o delta,
               !.messages = SetAssistant(st.messages, st.assistantMessage \o delta),
               !.deltas = Append(st.deltas, delta),
               !.afterDone = IF st.doneSeen THEN st.afterDone + 1 ELSE st.afterDone]

\* an accumulator without the test of line 92: a missing content is appended
\* as "undefined"
ApplyContentUnguarded(st, c) ==
    IF ~c.ok THEN st
    ELSE IF Truthy(c.val) THEN AppendDelta(st, ToText(c.val))
    ELSE AppendDelta(st, <<117, 110, 100, 101, 102, 105, 110, 101, 100>>)

\* line 92: if (content)
ApplyContent(st, c) ==
    IF c.ok /\ Truthy(c.val) THEN AppendDelta(st, ToText(c.val)) ELSE st

\* lines 90-91 and the catch of line 107
ApplyParsed(st, p) ==
    IF p.ok THEN ApplyContent(st, DeltaContent(p.val)) ELSE st

\* lines 89-109: one Data payload applied to the running state
ApplyPayload(st, jsonStr) ==
    ApplyParsed([st EXCEPT !.payloads = Append(st.payloads, jsonStr)],
                JSONParse(jsonStr))

\* a Data frame whose '[DONE]' does not leave the loop
DataFrameNoBreak(st, jsonStr) ==
    IF jsonStr = DoneSentinel THEN [st EXCEPT !.doneSeen = TRUE]
    ELSE ApplyPayload(st, jsonStr)

\* lines 87-109: a Data frame; brk tells that line 87 left the loop
DataFrame(st, jsonStr) ==
    IF jsonStr = DoneSentinel THEN [st EXCEPT !.doneSeen = TRUE, !.brk = TRUE]
    ELSE ApplyPayload(st, jsonStr)

\* lines 83-86: the classification of a line
FrameOfLine(st, line) ==
    IF StartsWith(line, <<58>>) \/ Trim(line) = <<>> THEN st
    ELSE IF ~StartsWith(line, DataPrefix) THEN st
    ELSE DataFrame(st, Trim(SliceFrom(line, 6)))

\* line 82: if (line.endsWith("\r")) line = line.slice(0, -1)
StripCR(line) ==
    IF EndsWith(line, <<CR>>) THEN SubSeq(line, 1, Len(line) - 1) ELSE line

\* lines 82-109: the body of the inner while loop for one extracted line
FrameStep(st, line) == FrameOfLine(st, StripCR(line))

RECURSIVE FrameLoop(_)

FrameLoopNext(st) == IF st.brk THEN st ELSE FrameLoop(st)

\* a loop that also takes the text after the last newline as a line
FrameLoopAtEager(st, newlineIndex) ==
    IF newlineIndex = 0
    THEN (IF st.buffer = <<>> THEN st
          ELSE FrameStep([st EXCEPT !.buffer = <<>>], st.buffer))
    ELSE FrameLoopNext(
            FrameStep([st EXCEPT !.buffer = SubSeq(st.buffer, newlineIndex + 1,
                                                   Len(st.buffer))],
                      SubSeq(st.buffer, 1, newlineIndex - 1)))

\* lines 79-80: the line up to the newline is cut off the buffer
FrameLoopAt(st, newlineIndex) ==
    IF newlineIndex = 0 THEN st
    ELSE FrameLoopNext(
            FrameStep([st EXCEPT !.buffer = SubSeq(st.buffer, newlineIndex + 1,
                                                   Len(st.buffer))],
                      SubSeq(st.buffer, 1, newlineIndex - 1)))

\* lines 77-110: while ((newlineIndex = buffer.indexOf("\n")) !== -1) {...}
FrameLoop(st) == FrameLoopAt(st, IndexOf(st.buffer, NL))

\* a chunk handler that forgets the unfinished line of the previous chunk
OnDecodedNoCarry(st, d) ==
    FrameLoop([st EXCEPT !.pending = d.st, !.buffer = d.text, !.brk = FALSE])

\* line 75 and the loop: buffer += decoder.decode(value, { stream: true })
OnDecoded(st, d) ==
    FrameLoop([st EXCEPT !.pending = d.st,
                         !.buffer = st.buffer \o d.text,
                         !.brk = FALSE])

\* lines 75-110: one chunk delivered by reader.read()
OnChunk(st, value) == OnDecoded(st, Decode(st.pending, value))

\* the locals of one invocation at line 69
StreamInit(msgs) ==
    [pending |-> DecoderInit, buffer |-> <<>>, assistantMessage |-> <<>>,
     messages |-> msgs, payloads |-> <<>>, deltas |-> <<>>, doneSeen |-> FALSE,
     afterDone |-> 0, brk |-> FALSE]

-----------------------------------------------------------------------------
(* AIChat.handleSend: the extraction of file actions (lines 113-130)       *)

\* "\"actions\""
ActionsKeyQuoted == <<34, 97, 99, 116, 105, 111, 110, 115, 34>>
\* "actions"
KeyActions == <<97, 99, 116, 105, 111, 110, 115>>

MatchBetween(text, first, last) ==
    IF /\ first > 0
       /\ \E j \in (first + 1)..(last - 9) : SubSeq(text, j, j + 8) = ActionsKeyQuoted
    THEN SubSeq(text, first, last)
    ELSE <<>>

\* a match anchored at the last '{' instead of the first
ActionMatchInnermost(text) ==
    MatchBetween(text, LastIndexOf(text, 123), LastIndexOf(text, 125))

\* a match that ends at the first '}' instead of the last
ActionMatchShortest(text) ==
    MatchBetween(text, IndexOf(text, 123), IndexOf(text, 125))

\* text.match(/\{[\s\S]*"actions"[\s\S]*\}/): the match runs from the first
\* '{' to the last '}' when the quoted key lies between them; <<>> is null
ActionMatch(text) == MatchBetween(text, IndexOf(text, 123), LastIndexOf(text, 125))

\* a stray action in place of none
StrayAction == [actions |-> <<JLit("null")>>, toast |-> TRUE]

NoActions == [actions |-> <<>>, toast |-> FALSE]

\* line 118: parsed.actions && Array.isArray(parsed.actions)
ActionsOf(a) ==
    IF a.t = "arr" THEN [actions |-> a.v, toast |-> TRUE] ELSE NoActions

\* line 117 and the catch of line 128
ActionsOfParsed(p) ==
    IF p.ok THEN ActionsOf(Prop(p.val, KeyActions)) ELSE NoActions

\* line 116: if (actionMatch)
ActionsOfMatch(m) ==
    IF m = <<>> THEN NoActions ELSE ActionsOfParsed(JSONParse(m))

\* lines 114-130: the actions handed to onFileAction, and whether the
\* "Files updated" toast is raised
ExtractActions(text) == ActionsOfMatch(ActionMatch(text))

-----------------------------------------------------------------------------
(* The response bodies the endpoint sends (the inputs of the read loop)    *)

\* {"choices":[{"delta":{"content":"   and   "}}]}
DeltaOpen == <<123, 34, 99, 104, 111, 105, 99, 101, 115, 34, 58, 91, 123, 34, 100, 101,
               108, 116, 97, 34, 58, 123, 34, 99, 111, 110, 116, 101, 110, 116, 34, 58, 34>>
DeltaClose == <<34, 125, 125, 93, 125>>

\* the line of a Data frame carrying the delta whose UTF-8 bytes are given
DeltaLine(contentBytes) == DataPrefix \o DeltaOpen \o contentBytes \o DeltaClose

\* data: {"choices":[{"delta":{"content":"Hel"}}]}
LineHel == DeltaLine(<<72, 101, 108>>)
\* data: {"choices":[{"delta":{"content":"é"}}]}\r   (two-byte character, CRLF)
LineEAcute == DeltaLine(<<195, 169>>) \o <<CR>>
\* data: [DONE]
LineDone == DataPrefix \o DoneSentinel
\* : ping   (a comment)
LineComment == <<58, 32, 112, 105, 110, 103>>
\* the empty line
LineBlank == <<>>
\* event: x   (no Data frame)
LineEvent == <<101, 118, 101, 110, 116, 58, 32, 120>>
\* data: {   (no JSON)
LineBadJson == <<100, 97, 116, 97, 58, 32, 123>>
\* data: {"choices":[]}   (no delta)
LineNoDelta == <<100, 97, 116, 97, 58, 32, 123, 34, 99, 104, 111, 105, 99, 101, 115, 34,
                 58, 91, 93, 125>>

\* the lines that carry a delta, and the lines the loop skips
DeltaLines == {LineHel, LineEAcute}
SkippedLines == {LineComment, LineBlank, LineEvent, LineBadJson, LineNoDelta}
BodyLines == DeltaLines \cup SkippedLines \cup {LineDone}

RECURSIVE Terminated(_)
\* the bytes of the lines, each followed by its newline
Terminated(lines) ==
    IF lines = <<>> THEN <<>>
    ELSE Head(lines) \o <<NL>> \o Terminated(Tail(lines))

\* the lines of the bodies: at most MaxLines, of which at most MaxSkipped are
\* skipped ones and at most one is the terminator
LineSeqs ==
    {ls \in UNION {[1..n -> BodyLines] : n \in 0..MaxLines} :
        /\ Cardinality({i \in 1..Len(ls) : ls[i] \in SkippedLines}) <= MaxSkipped
        /\ Cardinality({i \in 1..Len(ls) : ls[i] = LineDone}) <= 1}

\* a well-formed frame stream: newline-terminated lines, of which the last,
\* and only the last, is "data: [DONE]"
WellFormedLines(ls) ==
    /\ Len(ls) >= 1
    /\ ls[Len(ls)] = LineDone
    /\ \A i \in 1..(Len(ls) - 1) : ls[i] # LineDone

\* a response of the endpoint: fetch rejects ("reject"), or resolves to a
\* response with a status and a body (hasBody = FALSE: response.body is null)
Response(kind, status, hasBody, bytes) ==
    [kind |-> kind, status |-> status, hasBody |-> hasBody, body |-> bytes]

FailedResponses ==
    {Response("reject", 0, FALSE, <<>>)}
    \cup {Response("response", st, TRUE, <<>>) : st \in {402, 429, 500}}
    \cup {Response("response", 200, FALSE, <<>>)}

StreamResponses == {Response("response", 200, TRUE, Terminated(ls)) : ls \in LineSeqs}

\* "hi", "ok"
\* the response to the send after the first: one delta and the terminator
FollowUp == Response("response", 200, TRUE, Terminated(<<LineHel, LineDone>>))

TextHi == <<104, 105>>
TextOk == <<111, 107>>

\* the turn sequences a send starts from: none, or one answered exchange
Histories == {<<>>, <<Msg("user", TextHi), Msg("assistant", TextOk)>>}

\* no request is being handled, and nothing has been returned
NoCall == [fn |-> "none", pc |-> "done"]
NoAnswer == [status |-> 0, type |-> "none", body |-> <<>>, error |-> ""]

\* no edge function is running, and public.message is empty
EdgeAtRest ==
    /\ messageRows = <<>>
    /\ runs = <<>>
    /\ call = NoCall
    /\ sent = <<>>
    /\ answer = NoAnswer

\* null as the value of selectedFile
NoFile == [id |-> 0, path |-> JUndefined, content |-> JUndefined, language |-> JUndefined]

\* ProjectEditor.tsx line 30: the projectId of the route, for two projects
ProjectOne == "project-1"
ProjectTwo == "project-2"

\* the render a handler belongs to: its files and its selectedFile
Render(fs, sel) == [files |-> fs, selectedFile |-> sel]

\* ProjectEditor.tsx lines 35-37: the first render
FirstRender == Render(<<>>, NoFile)

\* the editor of a project without files, loaded, with no work in flight
EditorAtRest ==
    /\ db = {}
    /\ nextId = 1
    /\ files = <<>>
    /\ selectedFile = NoFile
    /\ loading = FALSE
    /\ handler = FirstRender
    /\ streaming = FALSE
    /\ sends = 0
    /\ tasks = <<>>
    /\ notes = 0
    /\ subscribed = TRUE
    /\ projectId = ProjectOne
    /\ remotes = 0
    /\ log = {}
    /\ fileToasts = <<>>

-----------------------------------------------------------------------------
(* AIChat.handleSend as a state machine                                    *)

InitChat ==
    /\ messages \in Histories
    /\ updaters = 0
    /\ ignored = 0
    /\ isLoading = FALSE
    /\ pc = "idle"
    /\ script \in {<<r>> : r \in FailedResponses \cup StreamResponses}
                  \cup {<<r, FollowUp>> : r \in FailedResponses \cup StreamResponses}
    /\ body = <<>>
    /\ offset = 0
    /\ pending = DecoderInit
    /\ buffer = <<>>
    /\ assistantMessage = <<>>
    /\ preSend = <<>>
    /\ userTurn = Msg("user", <<>>)
    /\ payloads = <<>>
    /\ deltas = <<>>
    /\ doneSeen = FALSE
    /\ afterDone = 0
    /\ toasts = <<>>
    /\ dispatched = <<>>
    /\ splitChar = FALSE
    /\ outcome = "none"
    /\ EditorAtRest
    /\ EdgeAtRest

\* the bound of the calls of handleSend that return at the guard
MaxIgnored == 1

\* "  ": an input of blanks
TextBlank == <<32, 32>>

\* what the user has typed when handleSend is called
Inputs == {TextHi, TextBlank, <<>>}

\* a handleSend without the guard of line 37
SendUnguarded ==
    /\ UNCHANGED <<fileVars, edgeVars>>
    /\ script # <<>>
    /\ \E input \in Inputs :
          /\ userTurn' = Msg("user", input)
          /\ messages' = Append(messages, Msg("user", input))
    /\ preSend' = messages
    /\ isLoading' = TRUE
    /\ pc' = "fetch"
    /\ body' = <<>>
    /\ payloads' = <<>>
    /\ deltas' = <<>>
    /\ doneSeen' = FALSE
    /\ afterDone' = 0
    /\ dispatched' = <<>>
    /\ splitChar' = FALSE
    /\ outcome' = "none"
    /\ UNCHANGED <<updaters, ignored>>
    /\ UNCHANGED <<script, offset, pending, buffer, assistantMessage, toasts>>

\* line 37: handleSend is called (the button, the Enter key) with a blank
\* input or while a send is loading, and returns
SendIgnored ==
    /\ UNCHANGED <<fileVars, edgeVars>>
    /\ ignored < MaxIgnored
    /\ \E input \in Inputs : Trim(input) = <<>> \/ isLoading
    /\ ignored' = ignored + 1
    /\ UNCHANGED <<messages, updaters, isLoading, pc, script, body, offset, pending,
                   buffer, assistantMessage, preSend, userTurn, payloads, deltas,
                   doneSeen, afterDone, toasts, dispatched, splitChar, outcome>>

\* lines 36-42: the guard, the optimistic user turn, the loading flag
Send ==
    /\ UNCHANGED <<fileVars, edgeVars>>
    /\ pc = "idle"
    /\ ~isLoading
    /\ script # <<>>
    /\ \E input \in Inputs :
          /\ Trim(input) # <<>>
          /\ userTurn' = Msg("user", input)
          /\ messages' = Append(messages, Msg("user", input))
    /\ preSend' = messages
    /\ isLoading' = TRUE
    /\ pc' = "fetch"
    /\ body' = <<>>
    /\ payloads' = <<>>
    /\ deltas' = <<>>
    /\ doneSeen' = FALSE
    /\ afterDone' = 0
    /\ dispatched' = <<>>
    /\ splitChar' = FALSE
    /\ outcome' = "none"
    /\ UNCHANGED <<updaters, ignored>>
    /\ UNCHANGED <<script, offset, pending, buffer, assistantMessage, toasts>>

\* an updater that leaves the sequence alone
KeepAll(prev) == prev

\* line 139: prev.slice(0, -1)
DropLast(prev) == SubSeq(prev, 1, Len(prev) - 1)

\* the locals of the invocation go out of scope
Leave ==
    /\ offset' = 0
    /\ pending' = DecoderInit
    /\ buffer' = <<>>
    /\ assistantMessage' = <<>>

\* a catch without the finally block: the flag stays as it is
CatchKeepsLoading(why) ==
    /\ toasts' = Append(toasts, "Error")
    /\ messages' = DropLast(messages)
    /\ isLoading' = isLoading
    /\ pc' = "idle"
    /\ outcome' = why
    /\ Leave

\* lines 132-142: catch and finally
Catch(why) ==
    /\ toasts' = Append(toasts, "Error")
    /\ messages' = DropLast(messages)
    /\ isLoading' = FALSE
    /\ pc' = "idle"
    /\ outcome' = why
    /\ Leave

\* line 47: fetch rejects
FetchReject ==
    /\ UNCHANGED <<fileVars, edgeVars>>
    /\ pc = "fetch"
    /\ Head(script).kind = "reject"
    /\ script' = Tail(script)
    /\ Catch("rejected")
    /\ UNCHANGED <<updaters, ignored>>
    /\ UNCHANGED <<body, preSend, userTurn, payloads, deltas, doneSeen, afterDone,
                   dispatched, splitChar>>

\* lines 59-62: a status outside 200..299 (the Error thrown carries the body's
\* error field, or is the SyntaxError of response.json(); both reach catch)
FetchNotOk ==
    /\ UNCHANGED <<fileVars, edgeVars>>
    /\ pc = "fetch"
    /\ Head(script).kind = "response"
    /\ ~(Head(script).status >= 200 /\ Head(script).status <= 299)
    /\ script' = Tail(script)
    /\ Catch(CASE Head(script).status = 402 -> "status 402"
               [] Head(script).status = 429 -> "status 429"
               [] OTHER -> "status 500")
    /\ UNCHANGED <<updaters, ignored>>
    /\ UNCHANGED <<body, preSend, userTurn, payloads, deltas, doneSeen, afterDone,
                   dispatched, splitChar>>

\* lines 64-65: response.body is null
FetchNoBody ==
    /\ UNCHANGED <<fileVars, edgeVars>>
    /\ pc = "fetch"
    /\ Head(script).kind = "response"
    /\ Head(script).status >= 200 /\ Head(script).status <= 299
    /\ ~Head(script).hasBody
    /\ script' = Tail(script)
    /\ Catch("no body")
    /\ UNCHANGED <<updaters, ignored>>
    /\ UNCHANGED <<body, preSend, userTurn, payloads, deltas, doneSeen, afterDone,
                   dispatched, splitChar>>

\* lines 64-69: the reader, the decoder and the locals
FetchOk ==
    /\ UNCHANGED <<fileVars, edgeVars>>
    /\ pc = "fetch"
    /\ Head(script).kind = "response"
    /\ Head(script).status >= 200 /\ Head(script).status <= 299
    /\ Head(script).hasBody
    /\ script' = Tail(script)
    /\ body' = Head(script).body
    /\ offset' = 0
    /\ pending' = DecoderInit
    /\ buffer' = <<>>
    /\ assistantMessage' = <<>>
    /\ pc' = "read"
    /\ UNCHANGED <<updaters, ignored>>
    /\ UNCHANGED <<messages, isLoading, preSend, userTurn, payloads, deltas,
                   doneSeen, afterDone, toasts, dispatched, splitChar, outcome>>

\* the running state of the loop as FrameLoop takes it
LoopState ==
    [pending |-> pending, buffer |-> buffer, assistantMessage |-> assistantMessage,
     messages |-> messages, payloads |-> payloads, deltas |-> deltas,
     doneSeen |-> doneSeen, afterDone |-> afterDone, brk |-> FALSE]

\* the sizes of the next chunk: nothing or a few bytes anywhere; all that is
\* left when the chunk starts a line
ChunkSizes ==
    (0..MaxChunk)
    \cup (IF offset = 0 \/ body[offset] = NL THEN {Len(body) - offset} ELSE {})

\* lines 72-110: read() resolves with a chunk of the body
ReadChunk ==
    /\ UNCHANGED <<fileVars, edgeVars>>
    /\ pc = "read"
    /\ offset < Len(body)
    /\ \E k \in ChunkSizes :
          /\ offset + k <= Len(body)
          /\ \E st \in {OnChunk(LoopState, SubSeq(body, offset + 1, offset + k))} :
                /\ pending' = st.pending
                /\ buffer' = st.buffer
                /\ assistantMessage' = st.assistantMessage
                /\ messages' = st.messages
                /\ payloads' = st.payloads
                /\ deltas' = st.deltas
                /\ doneSeen' = st.doneSeen
                /\ afterDone' = st.afterDone
                /\ splitChar' = (splitChar \/ st.pending.need > 0)
          /\ offset' = offset + k
    /\ UNCHANGED <<updaters, ignored>>
    /\ UNCHANGED <<isLoading, pc, script, body, preSend, userTurn, toasts,
                   dispatched, outcome>>

\* lines 72-73 and 113-130, 140-142: read() resolves with done; the actions
\* are extracted and handed to onFileAction; finally clears the flag
ReadDone ==
    /\ UNCHANGED <<fileVars, edgeVars>>
    /\ pc = "read"
    /\ offset = Len(body)
    /\ \E x \in {ExtractActions(assistantMessage)} :
          /\ dispatched' = x.actions
          /\ toasts' = IF x.toast THEN Append(toasts, "Files updated") ELSE toasts
    /\ isLoading' = FALSE
    /\ pc' = "idle"
    /\ outcome' = "ok"
    /\ Leave
    /\ UNCHANGED <<updaters, ignored>>
    /\ UNCHANGED <<messages, script, body, preSend, userTurn, payloads, deltas,
                   doneSeen, afterDone, splitChar>>

\* a catch that still runs the extraction on the text read so far
ReadFailExtracts ==
    /\ UNCHANGED <<fileVars, edgeVars>>
    /\ pc = "read"
    /\ Catch("read failed")
    /\ dispatched' = ExtractActions(assistantMessage).actions
    /\ UNCHANGED <<updaters, ignored>>
    /\ UNCHANGED <<script, body, preSend, userTurn, payloads, deltas, doneSeen,
                   afterDone, splitChar>>

\* line 72: read() rejects (the connection breaks, the request is aborted)
ReadFail ==
    /\ UNCHANGED <<fileVars, edgeVars>>
    /\ pc = "read"
    /\ Catch("read failed")
    /\ UNCHANGED <<updaters, ignored>>
    /\ UNCHANGED <<script, body, preSend, userTurn, payloads, deltas, doneSeen,
                   afterDone, dispatched, splitChar>>

NextChat ==
    \/ Send
    \/ SendIgnored
    \/ FetchReject
    \/ FetchNotOk
    \/ FetchNoBody
    \/ FetchOk
    \/ ReadChunk
    \/ ReadDone
    \/ ReadFail

SpecChat == InitChat /\ [][NextChat]_vars

-----------------------------------------------------------------------------
(* Properties of the read loop                                             *)

\* the lines of a body of the model
LinesOf(bytes) == CHOOSE ls \in LineSeqs : Terminated(ls) = bytes

\* the payloads the loop processes when the whole body arrives as one chunk
OneChunkPayloads(bytes) == OnChunk(StreamInit(<<>>), bytes).payloads

\* C1: for a well-formed frame stream, whatever the partition of its bytes
\* into chunks (empty chunks, splits inside a line or inside a character),
\* the Data payloads processed are, in order, those processed when the same
\* bytes arrive as one chunk.
C1_ChunkingKeepsPayloads ==
    (outcome = "ok" /\ WellFormedLines(LinesOf(body)))
        => payloads = OneChunkPayloads(body)

\* a well-formed stream with two Data frames has been read to its end, and a
\* chunk boundary fell inside the two-byte character of one of them
C1_Witness ==
    /\ outcome = "ok"
    /\ WellFormedLines(LinesOf(body))
    /\ splitChar
    /\ Len(payloads) = 2

\* the delta a line of the model carries
DeltaOf(line) == IF line = LineHel THEN <<72, 101, 108>> ELSE <<233>>

RECURSIVE DeltasOf(_)
\* the deltas of the Data frames among the lines, in order
DeltasOf(ls) ==
    IF ls = <<>> THEN <<>>
    ELSE IF Head(ls) \in DeltaLines THEN <<DeltaOf(Head(ls))>> \o DeltasOf(Tail(ls))
    ELSE DeltasOf(Tail(ls))

\* a stream whose Data frames carry non-empty deltas, at least one, and which
\* ends with the terminator
DeltaStream(ls) ==
    /\ WellFormedLines(ls)
    /\ \A i \in 1..Len(ls) : ls[i] \notin {LineBadJson, LineNoDelta}
    /\ \E i \in 1..Len(ls) : ls[i] \in DeltaLines

\* C2: after a stream whose Data frames carry the non-empty deltas d1..dn
\* (n >= 1) and then "data: [DONE]", the turn sequence is the sequence before
\* the send, the user turn, and one assistant turn whose content is d1...dn.
C2_OneAssistantTurn ==
    (outcome = "ok" /\ DeltaStream(LinesOf(body)))
        => messages = preSend \o <<userTurn,
                                   Msg("assistant", Join(DeltasOf(LinesOf(body))))>>

\* two different deltas have been assembled after an earlier exchange
C2_Witness ==
    /\ outcome = "ok"
    /\ DeltaStream(LinesOf(body))
    /\ preSend # <<>>
    /\ deltas = <<<<72, 101, 108>>, <<233>>>>
    /\ messages[Len(messages)].content = <<72, 101, 108, 233>>

\* C3: once a Data frame with payload '[DONE]' has been processed, no later
\* Data frame of the response changes the assembled message or the turn
\* sequence (afterDone counts the deltas appended after the terminator).
C3_NothingAfterDone == afterDone = 0

\* C7: a request that fails before any delta is appended (fetch rejected, a
\* status outside 2xx, no response body) ends with the turn sequence it
\* started from and with an error notification.
C7_RollbackBeforeStream ==
    (outcome \in {"rejected", "status 402", "status 429", "status 500", "no body"}
       \/ (outcome = "read failed" /\ deltas = <<>>))
        => /\ messages = preSend
           /\ toasts # <<>> /\ toasts[Len(toasts)] = "Error"

\* a rate-limited request after an earlier exchange
C7_Witness ==
    /\ outcome = "status 429"
    /\ preSend # <<>>
    /\ messages = preSend

\* C8: if the body read fails after deltas were appended, the triggering user
\* turn is removed from the turn sequence.
C8_UserTurnRemoved ==
    (outcome = "read failed" /\ deltas # <<>>)
        => ~(Len(messages) > Len(preSend) /\ messages[Len(preSend) + 1] = userTurn)

-----------------------------------------------------------------------------
(* JSON.stringify, and the action block the assistant is told to answer    *)
(* with (ai-code-assistant/index.ts lines 40-51)                           *)

\* the letter JSON.stringify writes after a backslash for the character; 0
\* when the character is written as it is (the control characters other than
\* these five do not occur in the texts of the model)
EscapeOf(c) ==
    CASE c = 34 -> 34
      [] c = 92 -> 92
      [] c = 10 -> 110
      [] c = 13 -> 114
      [] c = 9  -> 116
      [] c = 8  -> 98
      [] c = 12 -> 102
      [] OTHER  -> 0

QuoteChar(c) == IF EscapeOf(c) # 0 THEN <<92, EscapeOf(c)>> ELSE <<c>>

\* a string literal
Quote(s) == <<34>> \o Join([i \in 1..Len(s) |-> QuoteChar(s[i])]) \o <<34>>

RECURSIVE JoinWith(_, _)
\* Array.prototype.join with a one-character separator
JoinWith(ss, sep) ==
    IF ss = <<>> THEN <<>>
    ELSE IF Len(ss) = 1 THEN Head(ss)
    ELSE Head(ss) \o <<sep>> \o JoinWith(Tail(ss), sep)

IsDefined(m) == m.val.t # "undefined"

RECURSIVE Stringify(_)

StringifyMember(m) == Quote(m.k) \o <<58>> \o Stringify(m.val)

StringifyAll(xs) == JoinWith([i \in 1..Len(xs) |-> Stringify(xs[i])], 44)

StringifyMembers(ms) == JoinWith([i \in 1..Len(ms) |-> StringifyMember(ms[i])], 44)

\* JSON.stringify(x): no white space, members in insertion order, undefined
\* members left out
Stringify(x) ==
    CASE x.t = "str" -> Quote(x.v)
      [] x.t = "num" -> x.v
      [] x.t = "lit" -> ToText(x)
      [] x.t = "arr" -> <<91>> \o StringifyAll(x.v) \o <<93>>
      [] x.t = "obj" -> <<123>> \o StringifyMembers(SelectSeq(x.v, IsDefined)) \o <<125>>
      [] OTHER       -> <<110, 117, 108, 108>>

Member(k, val) == [k |-> k, val |-> val]

\* "type", "path", "language", "message"
KeyType == <<116, 121, 112, 101>>
KeyPath == <<112, 97, 116, 104>>
KeyLanguage == <<108, 97, 110, 103, 117, 97, 103, 101>>
KeyMessage == <<109, 101, 115, 115, 97, 103, 101>>

\* "create", "edit"
TypeCreate == <<99, 114, 101, 97, 116, 101>>
TypeEdit == <<101, 100, 105, 116>>

\* interface FileAction, with the members in the order of the prompt
FileAction(type, path, content, language) ==
    JObj(<<Member(KeyType, type), Member(KeyPath, path),
           Member(KeyContent, content), Member(KeyLanguage, language)>>)

\* the answer format of the prompt
ActionBlock(message, actions) ==
    JObj(<<Member(KeyMessage, JStr(message)), Member(KeyActions, JArr(actions))>>)

\* "a.js", "b.js", "javascript", "x"
PathA == <<97, 46, 106, 115>>
PathB == <<98, 46, 106, 115>>
LangJs == <<106, 97, 118, 97, 115, 99, 114, 105, 112, 116>>
TextX == <<120>>

Create(path, content, language) ==
    FileAction(JStr(TypeCreate), JStr(path), JStr(content), JStr(language))

Edit(path, content, language) ==
    FileAction(JStr(TypeEdit), JStr(path), JStr(content), JStr(language))

-----------------------------------------------------------------------------
(* AIChat.handleSend lines 113-130 on the texts a stream can assemble      *)

\* the length of the prose drawn from ProseChars
MaxProse == 2

\* H, line feed, '{', '}', '"'
ProseChars == {72, 10, 123, 125, 34}

ShortProses == UNION {[1..n -> ProseChars] : n \in 0..MaxProse}

\* "Here you go:\n"
ProseHere == <<72, 101, 114, 101, 32, 121, 111, 117, 32, 103, 111, 58, 10>>
\* "see \"actions\""
ProseKey == <<115, 101, 101, 32, 34, 97, 99, 116, 105, 111, 110, 115, 34>>
\* "Use {x}:\n"
ProseBraced == <<85, 115, 101, 32, 123, 120, 125, 58, 10>>

Proses == ShortProses \cup {ProseHere, ProseKey, ProseBraced}

\* "1", "}{", "\"\n": file contents
Contents == {<<49>>, <<125, 123>>, <<34, 10>>}

Paths == {PathA, PathB}

\* prose followed by JSON.stringify({message: "x", actions: [one create]})
BlockTexts ==
    {[prose |-> pr, path |-> p, content |-> c,
      text |-> pr \o Stringify(ActionBlock(TextX, <<Create(p, c, LangJs)>>))] :
        pr \in Proses, p \in Paths, c \in Contents}

\* an object whose actions member is the value v
ActionsValued(v) ==
    Stringify(JObj(<<Member(KeyMessage, JStr(TextX)), Member(KeyActions, v)>>))

\* objects that parse but carry no list of actions at the top: the key sits
\* in a nested object, or its value is a number, a string, an object, null
NoListTexts ==
    {Stringify(JObj(<<Member(KeyMessage, JObj(<<Member(KeyActions, JArr(<<>>))>>))>>))}
    \cup {ActionsValued(v) : v \in {JNum(<<49>>), JStr(TextX), JObj(<<>>), JLit("null")}}

\* {"message":"x","actions":[]}
EmptyListText == ActionsValued(JArr(<<>>))

\* "}{", "{x}", "{": file contents with braces, balanced or not
BraceContents == {<<125, 123>>, <<123, 120, 125>>, <<123>>}

\* prose without braces followed by JSON.stringify of an object with two
\* actions whose contents hold braces
TwoActionBlocks ==
    {[actions |-> <<Create(PathA, c1, LangJs), Edit(PathB, c2, LangJs)>>,
      text |-> pr \o Stringify(ActionBlock(TextX, <<Create(PathA, c1, LangJs),
                                                    Edit(PathB, c2, LangJs)>>))] :
        pr \in {<<>>, ProseHere}, c1 \in BraceContents, c2 \in BraceContents}

\* the assistant texts: prose with a block, prose alone, and objects without
\* a list of actions or with an empty one
ExtractTexts ==
    ({b.text : b \in BlockTexts} \cup {b.text : b \in TwoActionBlocks}
        \cup Proses \cup NoListTexts \cup {EmptyListText})
        \ {<<>>}

\* handleSend with a read() pending, after a body whose delta assembled the
\* text (of the observations of the read loop only the delta is kept here)
InitExtract ==
    /\ \E t \in ExtractTexts :
          /\ assistantMessage = t
          /\ messages = <<Msg("user", TextHi), Msg("assistant", t)>>
    /\ updaters = 0
    /\ ignored = 0
    /\ isLoading = TRUE
    /\ pc = "read"
    /\ script = <<>>
    /\ body = <<>>
    /\ offset = 0
    /\ pending = DecoderInit
    /\ buffer = <<>>
    /\ preSend = <<>>
    /\ userTurn = Msg("user", TextHi)
    /\ payloads = <<>>
    /\ deltas = (IF assistantMessage = <<>> THEN <<>> ELSE <<assistantMessage>>)
    /\ doneSeen = FALSE
    /\ afterDone = 0
    /\ toasts = <<>>
    /\ dispatched = <<>>
    /\ splitChar = FALSE
    /\ outcome = "none"
    /\ EditorAtRest
    /\ EdgeAtRest

\* the read that is pending reports the end of the body, or fails
NextExtract == ReadDone \/ ReadFail

SpecExtract == InitExtract /\ [][NextExtract]_vars

\* the text of the last turn
AssembledText == messages[Len(messages)].content

\* C10 as stated: extraction on prose followed by one serialized object
\* {message, actions: [one valid create action for path p]} yields exactly
\* one Create intent for p; on prose alone it yields no intent and raises
\* nothing.
C10_ProseThenBlock ==
    outcome = "ok" =>
        /\ \A b \in BlockTexts :
              AssembledText = b.text
                  => dispatched = <<Create(b.path, b.content, LangJs)>>
        /\ AssembledText \in Proses => (dispatched = <<>> /\ toasts = <<>>)

\* C10 amended: the same, for prose that contains no '{' before the object
\* (the match is anchored at the first '{' of the text).
C10_BraceFreeProseThenBlock ==
    outcome = "ok" =>
        /\ \A b \in BlockTexts :
              (AssembledText = b.text /\ IndexOf(b.prose, 123) = 0)
                  => dispatched = <<Create(b.path, b.content, LangJs)>>
        /\ AssembledText \in Proses => (dispatched = <<>> /\ toasts = <<>>)

\* the round trip of the example: "Here you go:\n" and a create of a.js with
\* content "1" gave that one intent
C10_Witness ==
    /\ outcome = "ok"
    /\ AssembledText
         = ProseHere \o Stringify(ActionBlock(TextX, <<Create(PathA, <<49>>, LangJs)>>))
    /\ dispatched = <<Create(PathA, <<49>>, LangJs)>>
    /\ toasts = <<"Files updated">>

-----------------------------------------------------------------------------
(* public.files (migration lines 200-209, 310-312)                         *)

JNull == JLit("null")

\* "plaintext"
LangPlain == <<112, 108, 97, 105, 110, 116, 101, 120, 116>>

\* a member of a request body as the value of a TEXT column
AsText(v) ==
    IF v.t = "str" \/ v = JNull THEN v ELSE JStr(ToText(v))

\* the column of a row: the member of the request, or what the column holds
\* without it (JSON.stringify leaves undefined members out of the body)
Column(v, without) == IF v.t = "undefined" THEN without ELSE AsText(v)

\* a > b never holds; a and b are texts, ordered as ORDER BY path orders them
TextLess(a, b) ==
    \E i \in 1..Len(b) :
        /\ \A j \in 1..(i - 1) : j <= Len(a) /\ a[j] = b[j]
        /\ (i > Len(a) \/ a[i] < b[i])

Before(r1, r2) ==
    \/ TextLess(r1.path.v, r2.path.v)
    \/ (r1.path = r2.path /\ r1.id < r2.id)

\* select("*").eq("project_id", projectId).order("path", {ascending: true})
SelectByPath(rows) ==
    CHOOSE s \in [1..Cardinality(rows) -> rows] :
        \A i, j \in 1..Cardinality(rows) : i < j => Before(s[i], s[j])

\* the outcome of a write: the error code, the rows afterwards, the row
\* returned by select().single(), the number of rows written
Written(rows, data, count) ==
    [error |-> "", rows |-> rows, data |-> data, count |-> count]

\* a failing statement that takes the earlier writes back
RejectedRollsBack(rows, error) ==
    [error |-> error, rows |-> {}, data |-> NoFile, count |-> 0]

Rejected(rows, error) ==
    [error |-> error, rows |-> rows, data |-> NoFile, count |-> 0]

\* a table without the constraint
PathNeverTaken(rows, row) == FALSE

\* UNIQUE (project_id, path)
PathTaken(rows, row) == \E r \in rows : r.path = row.path

NewRow(id, req) ==
    [id |-> id,
     path |-> Column(req.path, JNull),
     content |-> Column(req.content, JNull),
     language |-> Column(req.language, JStr(LangPlain))]

\* an insert that looks at no constraint
InsertRowUnchecked(rows, row) == Written(rows \cup {row}, row, 1)

\* INSERT: path is NOT NULL (23502) and unique in the project (23505)
InsertRow(rows, row) ==
    IF row.path = JNull THEN Rejected(rows, "not null")
    ELSE IF PathTaken(rows, row) THEN Rejected(rows, "duplicate")
    ELSE Written(rows \cup {row}, row, 1)

UpdatedRow(r, req) ==
    [id |-> r.id,
     path |-> r.path,
     content |-> Column(req.content, r.content),
     language |-> Column(req.language, r.language)]

\* UPDATE ... WHERE id = id: no row is no error
UpdateRows(rows, id, req) ==
    Written({IF r.id = id THEN UpdatedRow(r, req) ELSE r : r \in rows},
            NoFile, Cardinality({r \in rows : r.id = id}))

\* the store runs the request of a call
RunRequest(rows, id, req) ==
    IF req.k = "insert" THEN InsertRow(rows, NewRow(id, req.row))
    ELSE UpdateRows(rows, req.id, req.row)

-----------------------------------------------------------------------------
(* ProjectEditor.handleFileAction and loadFiles (lines 106-182)            *)

\* the sends of the model
MaxSends == 2
\* the calls of handleFileAction and loadFiles in flight at a time
MaxTasks == 2
\* the writes of other clients
MaxRemote == 1
\* the change notifications on their way at a time
MaxNotes == 1

NoRow == [path |-> JUndefined, content |-> JUndefined, language |-> JUndefined]

\* a call to the store: insert a row, or update the row of an id; sel is the
\* value setSelectedFile gets when an update succeeds
Request(k, id, row, sel) == [k |-> k, id |-> id, row |-> row, sel |-> sel]

NoRequest == Request("none", 0, NoRow, NoFile)

\* line 136: files.find(f => f.path === action.path)
Find(fs, path) ==
    IF \E i \in 1..Len(fs) : fs[i].path = path
    THEN fs[CHOOSE i \in 1..Len(fs) :
                /\ fs[i].path = path
                /\ \A j \in 1..(i - 1) : fs[j].path # path]
    ELSE NoFile

\* lines 138-147: the update of the record found in the local view
UpdateExisting(action, existingFile) ==
    Request("update", existingFile.id,
            [path |-> JUndefined,
             content |-> Prop(action, KeyContent),
             language |-> Prop(action, KeyLanguage)],
            [id |-> existingFile.id,
             path |-> existingFile.path,
             content |-> Prop(action, KeyContent),
             language |-> Prop(action, KeyLanguage)])

\* lines 149-162: the insert
InsertNew(action) ==
    Request("insert", 0,
            [path |-> Prop(action, KeyPath),
             content |-> Prop(action, KeyContent),
             language |-> Prop(action, KeyLanguage)],
            NoFile)

CreateRequest(action, existingFile) ==
    IF existingFile # NoFile THEN UpdateExisting(action, existingFile)
    ELSE InsertNew(action)

\* an edit that writes the whole request into the selected record
EditRequestAllMembers(action, sel) ==
    Request("update", sel.id,
            [path |-> JUndefined,
             content |-> Prop(action, KeyContent),
             language |-> Prop(action, KeyLanguage)],
            sel)

\* lines 164-171: the update of the selected file
EditRequest(action, sel) ==
    Request("update", sel.id,
            [path |-> JUndefined,
             content |-> Prop(action, KeyContent),
             language |-> JUndefined],
            [id |-> sel.id,
             path |-> sel.path,
             content |-> Prop(action, KeyContent),
             language |-> sel.language])

\* a handler whose edit branch does not look at the selection
RequestOfEditUnguarded(action, cl) ==
    IF Prop(action, KeyType) = JStr(TypeCreate)
    THEN CreateRequest(action, Find(cl.files, Prop(action, KeyPath)))
    ELSE IF Prop(action, KeyType) = JStr(TypeEdit)
         THEN EditRequest(action, cl.selectedFile)
    ELSE NoRequest

\* lines 134-172 up to the first await, in the render cl of the handler; a
\* null action makes action.type throw
RequestOf(action, cl) ==
    IF action = JNull THEN Request("throw", 0, NoRow, NoFile)
    ELSE IF Prop(action, KeyType) = JStr(TypeCreate)
         THEN CreateRequest(action, Find(cl.files, Prop(action, KeyPath)))
    ELSE IF Prop(action, KeyType) = JStr(TypeEdit) /\ cl.selectedFile # NoFile
         THEN EditRequest(action, cl.selectedFile)
    ELSE NoRequest

\* a call in flight: stage is "write" (the request is on its way to the
\* store), "written" (its answer is on its way back), "query" (the select of
\* loadFiles is on its way), "apply" (the rows are on their way back)
Task(act, req, cl, stage, error) ==
    [act |-> act, req |-> req, cl |-> cl, stage |-> stage,
     error |-> error, data |-> NoFile, snap |-> <<>>]

\* loadFiles() called in the render cl
LoadTask(cl) == Task(JUndefined, NoRequest, cl, "query", "")

StartOf(act, req, cl) ==
    IF req.k = "throw" THEN Task(act, req, cl, "written", "TypeError")
    ELSE IF req.k = "none" THEN Task(act, req, cl, "query", "")
    ELSE Task(act, req, cl, "write", "")

\* handleFileAction(action) up to its first await
CallOf(action, cl) == StartOf(action, RequestOf(action, cl), cl)

Without(seq, i) == SubSeq(seq, 1, i - 1) \o SubSeq(seq, i + 1, Len(seq))

-----------------------------------------------------------------------------
(* The assistant messages and the stores the editor is opened on           *)

\* "0", "1", "2", "9": file contents
ContentOld == <<48>>
ContentOne == <<49>>
ContentTwo == <<50>>
ContentRemote == <<57>>

\* a create action whose content member is missing
CreateNoContent(path, language) ==
    FileAction(JStr(TypeCreate), JStr(path), JUndefined, JStr(language))

\* prose and one create of a.js
TextCreateA ==
    ProseHere \o Stringify(ActionBlock(TextX, <<Create(PathA, ContentOne, LangJs)>>))

\* the same create of a.js twice
TextTwice ==
    Stringify(ActionBlock(TextX, <<Create(PathA, ContentOne, LangJs),
                                   Create(PathA, ContentOne, LangJs)>>))

\* a create of b.js without content, then a create of a.js
TextMixed ==
    Stringify(ActionBlock(TextX, <<CreateNoContent(PathB, LangJs),
                                   Create(PathA, ContentOne, LangJs)>>))

\* an edit
TextEdit ==
    Stringify(ActionBlock(TextX, <<Edit(PathA, ContentTwo, LangJs)>>))

\* one create of b.js
TextCreateB ==
    Stringify(ActionBlock(TextX, <<Create(PathB, ContentOne, LangJs)>>))

\* a create of b.js, then an edit
TextCreateThenEdit ==
    Stringify(ActionBlock(TextX, <<Create(PathB, ContentOne, LangJs),
                                   Edit(PathB, ContentTwo, LangJs)>>))

AssistantTexts == {TextCreateA, TextCreateB, TextTwice, TextMixed, TextEdit,
                   TextCreateThenEdit, TextOk}

\* the action lists lines 113-121 hand to onFileAction, one by one
Batches == {ExtractActions(t).actions : t \in AssistantTexts}

\* the project has no file, or a.js with content "0"
InitialStores ==
    {{}, {[id |-> 1, path |-> JStr(PathA), content |-> JStr(ContentOld),
           language |-> JStr(LangJs)]}}

-----------------------------------------------------------------------------
(* ProjectEditor as a state machine                                        *)

\* an AIChat that has sent nothing (its read loop is not followed here)
ChatAtRest ==
    /\ messages = <<>>
    /\ updaters = 0
    /\ ignored = 0
    /\ isLoading = FALSE
    /\ pc = "idle"
    /\ script = <<>>
    /\ body = <<>>
    /\ offset = 0
    /\ pending = DecoderInit
    /\ buffer = <<>>
    /\ assistantMessage = <<>>
    /\ preSend = <<>>
    /\ userTurn = Msg("user", <<>>)
    /\ payloads = <<>>
    /\ deltas = <<>>
    /\ doneSeen = FALSE
    /\ afterDone = 0
    /\ toasts = <<>>
    /\ dispatched = <<>>
    /\ splitChar = FALSE
    /\ outcome = "none"

\* lines 34-74: the first render and its effect: loadFiles() is in flight and
\* the channel is subscribed
InitFiles ==
    /\ ChatAtRest
    /\ EdgeAtRest
    /\ db \in InitialStores
    /\ nextId = Cardinality(db) + 1
    /\ files = <<>>
    /\ selectedFile = NoFile
    /\ loading = TRUE
    /\ handler = FirstRender
    /\ streaming = FALSE
    /\ sends = 0
    /\ tasks = <<LoadTask(FirstRender)>>
    /\ notes = 0
    /\ subscribed = TRUE
    /\ projectId = ProjectOne
    /\ remotes = 0
    /\ log = {}
    /\ fileToasts = <<>>

\* a write of the store, as the history keeps it: who asked for it (an
\* intent or another session), for which action, what the store did, and
\* how many writes the same action had asked for before
Event(src, act, k, error, count) ==
    [src |-> src, act |-> act, k |-> k, error |-> error, count |-> count,
     nth |-> Cardinality({e \in log : e.src = src /\ e.act = act}) + 1]

\* the store publishes a change of count rows to the channel (beyond
\* MaxNotes the notification is lost on its way)
Publish(count) ==
    notes' = IF count > 0 /\ notes < MaxNotes THEN notes + 1 ELSE notes

\* AIChat.handleSend lines 36-42 as the editor sees it: AIChat is rendered
\* once loading is false (line 208); the handleSend that runs holds the
\* onFileAction of the current render
SendStarts ==
    /\ ~loading
    /\ ~streaming
    /\ sends < MaxSends
    /\ handler' = Render(files, selectedFile)
    /\ streaming' = TRUE
    /\ sends' = sends + 1
    /\ UNCHANGED <<db, nextId, files, selectedFile, loading, tasks, notes, remotes,
                    log, fileToasts>>
    /\ UNCHANGED <<subscribed, projectId>>
    /\ UNCHANGED <<chatVars, edgeVars>>

\* AIChat.handleSend lines 118-121 and 141: each action of the list is handed
\* to onFileAction, which is not awaited
DispatchActions ==
    /\ streaming
    /\ \E actions \in Batches :
          /\ Len(tasks) + Len(actions) <= MaxTasks
          /\ tasks' = tasks \o [i \in 1..Len(actions) |-> CallOf(actions[i], handler)]
    /\ streaming' = FALSE
    /\ handler' = FirstRender
    /\ UNCHANGED <<db, nextId, files, selectedFile, loading, sends, notes,
                   remotes,  log, fileToasts>>
    /\ UNCHANGED <<subscribed, projectId>>
    /\ UNCHANGED <<chatVars, edgeVars>>

\* the store runs the insert or the update of a call
StoreWrites ==
    /\ \E i \in 1..Len(tasks) :
          /\ tasks[i].stage = "write"
          /\ \E w \in {RunRequest(db, nextId, tasks[i].req)} :
                /\ db' = w.rows
                /\ nextId' = IF w.data = NoFile THEN nextId ELSE nextId + 1
                /\ tasks' = [tasks EXCEPT ![i].stage = "written",
                                          ![i].error = w.error,
                                          ![i].data = w.data]
                /\ log' = log \cup {Event("intent", tasks[i].act, tasks[i].req.k,
                                       w.error, w.count)}
                /\ Publish(w.count)
    /\ UNCHANGED <<files, selectedFile, loading, handler, streaming, sends, remotes,
                   fileToasts>>
    /\ UNCHANGED <<subscribed, projectId>>
    /\ UNCHANGED <<chatVars, edgeVars>>

\* lines 145-147, 161-162, 170-171, 174-181: the answer of the store arrives
WriteAnswered ==
    /\ \E i \in 1..Len(tasks) :
          /\ tasks[i].stage = "written"
          /\ IF tasks[i].error # ""
             THEN /\ fileToasts' = Append(fileToasts, "Error updating file")
                  /\ tasks' = Without(tasks, i)
                  /\ UNCHANGED selectedFile
             ELSE /\ selectedFile' = IF tasks[i].req.k = "insert" THEN tasks[i].data
                                     ELSE tasks[i].req.sel
                  /\ tasks' = [tasks EXCEPT ![i].stage = "query"]
                  /\ UNCHANGED fileToasts
    /\ UNCHANGED <<db, nextId, files, loading, handler, streaming, sends, notes,
                   remotes,  log>>
    /\ UNCHANGED <<subscribed, projectId>>
    /\ UNCHANGED <<chatVars, edgeVars>>

\* lines 108-112: the store runs the select of a loadFiles
StoreSelects ==
    /\ \E i \in 1..Len(tasks) :
          /\ tasks[i].stage = "query"
          /\ tasks' = [tasks EXCEPT ![i].stage = "apply", ![i].snap = SelectByPath(db)]
    /\ UNCHANGED <<db, nextId, files, selectedFile, loading, handler, streaming,
                   sends, notes, remotes,  log, fileToasts>>
    /\ UNCHANGED <<subscribed, projectId>>
    /\ UNCHANGED <<chatVars, edgeVars>>

\* lines 114-120: setFiles(data || []) and, when the render the loadFiles
\* belongs to had no selection, setSelectedFile(data[0]); cur holds the
\* files and the selected file before
Loaded(cur, t) ==
    Render(t.snap,
           IF t.cl.selectedFile = NoFile /\ Len(t.snap) > 0 THEN t.snap[1]
           ELSE cur.selectedFile)

\* lines 114-120 and 128: the rows arrive; selectedFile is the one of the
\* render the loadFiles belongs to
SelectAnswered ==
    /\ \E i \in 1..Len(tasks) :
          /\ tasks[i].stage = "apply"
          /\ \E now \in {Loaded(Render(files, selectedFile), tasks[i])} :
                /\ files' = now.files
                /\ selectedFile' = now.selectedFile
          /\ tasks' = Without(tasks, i)
    /\ loading' = FALSE
    /\ UNCHANGED <<db, nextId, handler, streaming, sends, notes, remotes, 
                   log, fileToasts>>
    /\ UNCHANGED <<subscribed, projectId>>
    /\ UNCHANGED <<chatVars, edgeVars>>

\* another session of the editor on the same project runs handleCreateFile
\* (second version of ProjectEditor.tsx, lines 480-520): an insert with
\* content "" that the store accepts
RemoteInsert ==
    /\ remotes < MaxRemote
    /\ \E path \in Paths :
          \E w \in {InsertRow(db, NewRow(nextId, [path |-> JStr(path),
                                                   content |-> JStr(<<>>),
                                                   language |-> JStr(LangPlain)]))} :
              /\ w.error = ""
              /\ db' = w.rows
              /\ nextId' = nextId + 1
              /\ log' = log \cup {Event("remote", JUndefined, "insert", "", 1)}
              /\ Publish(1)
    /\ remotes' = remotes + 1
    /\ UNCHANGED <<files, selectedFile, loading, handler, streaming, sends, tasks,
                   fileToasts>>
    /\ UNCHANGED <<subscribed, projectId>>
    /\ UNCHANGED <<chatVars, edgeVars>>

\* another session saves a file it has edited (handleSaveFile)
RemoteUpdate ==
    /\ remotes < MaxRemote
    /\ \E r \in db :
          \E w \in {UpdateRows(db, r.id, [path |-> JUndefined,
                                          content |-> JStr(ContentRemote),
                                          language |-> JUndefined])} :
              /\ db' = w.rows
              /\ log' = log \cup {Event("remote", JUndefined, "update", "", w.count)}
              /\ Publish(w.count)
    /\ remotes' = remotes + 1
    /\ UNCHANGED <<nextId, files, selectedFile, loading, handler, streaming, sends,
                   tasks, fileToasts>>
    /\ UNCHANGED <<subscribed, projectId>>
    /\ UNCHANGED <<chatVars, edgeVars>>

\* another session deletes a file (handleDeleteFile, lines 552-575)
RemoteDelete ==
    /\ remotes < MaxRemote
    /\ \E r \in db :
          /\ db' = db \ {r}
          /\ log' = log \cup {Event("remote", JUndefined, "delete", "", 1)}
          /\ Publish(1)
    /\ remotes' = remotes + 1
    /\ UNCHANGED <<nextId, files, selectedFile, loading, handler, streaming, sends,
                   tasks, fileToasts>>
    /\ UNCHANGED <<subscribed, projectId>>
    /\ UNCHANGED <<chatVars, edgeVars>>

\* a channel that is still called after it was removed
ChangeNotifiedAfterRemoval ==
    /\ notes > 0
    /\ Len(tasks) < MaxTasks
    /\ notes' = notes - 1
    /\ tasks' = Append(tasks, LoadTask(FirstRender))
    /\ UNCHANGED <<db, nextId, files, selectedFile, loading, handler, streaming,
                   sends, remotes,  log, fileToasts>>
    /\ UNCHANGED <<subscribed, projectId>>
    /\ UNCHANGED <<chatVars, edgeVars>>

\* lines 65-67: a change notification reaches the channel; the callback is
\* the one of the first render (the effect depends on projectId only)
ChangeNotified ==
    /\ notes > 0
    /\ subscribed
    /\ Len(tasks) < MaxTasks
    /\ notes' = notes - 1
    /\ tasks' = Append(tasks, LoadTask(FirstRender))
    /\ UNCHANGED <<db, nextId, files, selectedFile, loading, handler, streaming,
                   sends, remotes,  log, fileToasts>>
    /\ UNCHANGED <<subscribed, projectId>>
    /\ UNCHANGED <<chatVars, edgeVars>>

\* lines 70-72: the cleanup of the effect (the editor is unmounted, or the
\* route changes to another project): supabase.removeChannel(channel)
Unmount ==
    /\ subscribed
    /\ subscribed' = FALSE
    /\ UNCHANGED projectId
    /\ UNCHANGED <<db, nextId, files, selectedFile, loading, handler, streaming,
                   sends, tasks, notes, remotes, log, fileToasts>>
    /\ UNCHANGED <<chatVars, edgeVars>>

\* a change notification of the project finds the channel removed
ChangeUnheard ==
    /\ notes > 0
    /\ ~subscribed
    /\ notes' = notes - 1
    /\ UNCHANGED <<db, nextId, files, selectedFile, loading, handler, streaming,
                   sends, tasks, remotes, log, fileToasts>>
    /\ UNCHANGED <<subscribed, projectId>>
    /\ UNCHANGED <<chatVars, edgeVars>>

NextFiles ==
    \/ SendStarts
    \/ DispatchActions
    \/ StoreWrites
    \/ WriteAnswered
    \/ StoreSelects
    \/ SelectAnswered
    \/ RemoteInsert
    \/ RemoteUpdate
    \/ RemoteDelete
    \/ ChangeNotified

SpecFiles == InitFiles /\ [][NextFiles]_vars

\* the editor of a project that is open, and is closed at some time, while
\* other sessions write to the project's files
NextChannel ==
    \/ RemoteInsert
    \/ RemoteUpdate
    \/ RemoteDelete
    \/ ChangeNotified
    \/ ChangeUnheard
    \/ StoreSelects
    \/ SelectAnswered
    \/ Unmount

SpecChannel == InitFiles /\ [][NextChannel]_vars

-----------------------------------------------------------------------------
(* Properties of the reconciliation of file actions                        *)

\* an action that carries type 'create' or 'edit', path, content and language
ValidAction(act) ==
    /\ act.t = "obj"
    /\ Prop(act, KeyType) \in {JStr(TypeCreate), JStr(TypeEdit)}
    /\ Prop(act, KeyPath).t # "undefined"
    /\ Prop(act, KeyContent).t # "undefined"
    /\ Prop(act, KeyLanguage).t # "undefined"

ValidCreate(act) == ValidAction(act) /\ Prop(act, KeyType) = JStr(TypeCreate)

\* every write of the store so far was asked for by the intent act
OnlyWriter(act) == \A e \in log : e.src = "intent" /\ e.act = act

C5_CreateRaisesNoDuplicateKey ==
    \A e \in log : (e.src = "intent" /\ ValidCreate(e.act)) => e.error # "duplicate"

\* C6: once no write is pending and every started reload has completed, the
\* local file collection equals the persisted one (the intents being the
\* only writers, so that every write is followed by a reload).
C6_ReloadsConverge ==
    (tasks = <<>> /\ ~streaming /\ ~loading /\ notes = 0 /\ remotes = 0)
        => files = SelectByPath(db)

\* C9: an element of the actions list that lacks path, content or language,
\* or whose type is neither 'create' nor 'edit', causes no write.
C9_InvalidElementsWriteNothing ==
    \A e \in log : (e.src = "intent" /\ ~ValidAction(e.act)) => e.count = 0

-----------------------------------------------------------------------------
(* Properties of the extraction of file actions                            *)

\* the stage at which lines 115-118 give up on a text: "match" (the pattern
\* does not match), "parse" (JSON.parse throws), "list" (actions is missing
\* or no list), "empty" (the list is empty), "none" (actions are extracted)
StageOfList(a) ==
    IF a.t # "arr" THEN "list" ELSE IF a.v = <<>> THEN "empty" ELSE "none"

StageOfParsed(p) ==
    IF p.ok THEN StageOfList(Prop(p.val, KeyActions)) ELSE "parse"

StageOfMatch(m) == IF m = <<>> THEN "match" ELSE StageOfParsed(JSONParse(m))

FailedStage(text) == StageOfMatch(MatchBetween(text, IndexOf(text, 123),
                                               LastIndexOf(text, 125)))

\* C11: when the extraction fails at any stage (no match, JSON parse error,
\* missing or non-list actions, empty list), no action is dispatched, no
\* record is written, the turn sequence stays as the stream produced it and
\* no error is surfaced.
C11_FailedExtractionIsSilent ==
    (outcome = "ok" /\ FailedStage(AssembledText) # "none")
        => /\ dispatched = <<>>
           /\ db = {} /\ tasks = <<>>
           /\ messages = <<Msg("user", TextHi), Msg("assistant", AssembledText)>>
           /\ \A i \in 1..Len(toasts) : toasts[i] # "Error"

\* a block after prose with braces was matched from the prose on and
\* rejected by JSON.parse; the text is shown and nothing else happened
C11_Witness ==
    /\ outcome = "ok"
    /\ AssembledText
         = ProseBraced \o Stringify(ActionBlock(TextX, <<Create(PathA, <<49>>, LangJs)>>))
    /\ FailedStage(AssembledText) = "parse"
    /\ dispatched = <<>>
    /\ toasts = <<>>

-----------------------------------------------------------------------------
(* Properties of the Edit and Create intents                               *)

IsEdit(act) == act.t = "obj" /\ Prop(act, KeyType) = JStr(TypeEdit)

\* the store runs the write of call i in this step
WriteStepOf(i) ==
    /\ Len(tasks') = Len(tasks)
    /\ tasks[i].stage = "write"
    /\ tasks'[i].stage = "written"

C13_EditWithoutSelectionIsNoOp ==
    \A i \in 1..Len(tasks) :
        (IsEdit(tasks[i].act) /\ tasks[i].cl.selectedFile = NoFile)
            => /\ tasks[i].req = NoRequest
               /\ tasks[i].stage \in {"query", "apply"}
               /\ tasks[i].error = ""

\* an edit applied on a project without files waits for the rows of its
\* reload; the store has seen no write and no toast was raised
C13_Witness ==
    /\ \E i \in 1..Len(tasks) :
          /\ IsEdit(tasks[i].act) /\ tasks[i].cl.selectedFile = NoFile
          /\ tasks[i].stage = "apply"
    /\ db = {}
    /\ log = {}
    /\ fileToasts = <<>>

\* call i, which has written to the store, ends in this step: the rows of
\* its reload are applied
CompletionStepOf(i) ==
    /\ tasks[i].stage = "apply"
    /\ tasks[i].req.k \in {"insert", "update"}
    /\ tasks' = Without(tasks, i)

\* C14: when a Create(path, content, language) intent has been applied
\* without error, the record of the path carries the intent's content and
\* language and is the selected file (stated for a call that ends while it
\* is the only one in flight and no other session has written).
C14_CreatedIsSelected ==
    [][\A i \in 1..Len(tasks) :
          (CompletionStepOf(i) /\ ValidCreate(tasks[i].act)
             /\ Len(tasks) = 1 /\ remotes = 0)
              => \E r \in db' :
                    /\ r.path = Prop(tasks[i].act, KeyPath)
                    /\ r.content = Prop(tasks[i].act, KeyContent)
                    /\ r.language = Prop(tasks[i].act, KeyLanguage)
                    /\ selectedFile'.id = r.id]_vars

\* C15: in every reachable state of the store no two records of the project
\* share a path, whatever the interleaving of Create and Edit intents, manual
\* file creation and the writes of other sessions.
C15_PathsAreUnique ==
    \A r1, r2 \in db : r1.path = r2.path => r1 = r2

\* another session has created a file by hand, a create intent for the same
\* path was rejected as a duplicate, and the project holds two files
C15_Witness ==
    /\ \E e \in log : e.src = "remote" /\ e.k = "insert"
    /\ \E e \in log : e.src = "intent" /\ e.k = "insert" /\ e.error = "duplicate"
    /\ Cardinality(db) = 2
    /\ Cardinality({r.path : r \in db}) = 2

-----------------------------------------------------------------------------
(* The accumulation of deltas (AIChat.tsx lines 86-109) on payload lists   *)

\* the bound of the payload lists
MaxPayloads == 2

\* {"choices":[{"delta":{"content":"Hel"}}]}
PayloadHel == DeltaOpen \o <<72, 101, 108>> \o DeltaClose
\* {"choices":[{"delta":{"content":"é"}}]}
PayloadEAcute == DeltaOpen \o <<233>> \o DeltaClose
\* {"choices":[{"delta":{"content":""}}]}   (a delta that is not truthy)
PayloadEmpty == DeltaOpen \o DeltaClose
\* {"choices":[{"delta":{"content":7}}]}   (a content that is no string)
PayloadNumber == <<123, 34, 99, 104, 111, 105, 99, 101, 115, 34, 58, 91, 123, 34, 100,
                   101, 108, 116, 97, 34, 58, 123, 34, 99, 111, 110, 116, 101, 110, 116,
                   34, 58, 55, 125, 125, 93, 125>>
\* {   (no JSON)
PayloadBadJson == <<123>>
\* {"choices":[]}
PayloadNoDelta == <<123, 34, 99, 104, 111, 105, 99, 101, 115, 34, 58, 91, 93, 125>>
\* null   (reading .choices throws)
PayloadNull == <<110, 117, 108, 108>>

DataPayloads == {PayloadHel, PayloadEAcute, PayloadEmpty, PayloadNumber,
                 PayloadBadJson, PayloadNoDelta, PayloadNull}

PayloadSeqs == UNION {[1..n -> DataPayloads] : n \in 0..MaxPayloads}

RECURSIVE Assemble(_, _)
\* lines 89-109 run for each payload of a list in order
Assemble(st, ps) ==
    IF ps = <<>> THEN st ELSE Assemble(ApplyPayload(st, Head(ps)), Tail(ps))

\* the text assembled from a payload list by a stream of its own
TextOf(ps) == Assemble(StreamInit(<<>>), ps).assistantMessage

\* a stream is open (line 69) and will carry the payloads of A, then of B
InitAccumulate ==
    /\ script \in {<<a, b>> : a \in PayloadSeqs, b \in PayloadSeqs}
    /\ preSend \in Histories
    /\ messages = Append(preSend, Msg("user", TextHi))
    /\ updaters = 0
    /\ ignored = 0
    /\ isLoading = TRUE
    /\ pc = "read"
    /\ body = <<>>
    /\ offset = 0
    /\ pending = DecoderInit
    /\ buffer = <<>>
    /\ assistantMessage = <<>>
    /\ userTurn = Msg("user", TextHi)
    /\ payloads = <<>>
    /\ deltas = <<>>
    /\ doneSeen = FALSE
    /\ afterDone = 0
    /\ toasts = <<>>
    /\ dispatched = <<>>
    /\ splitChar = FALSE
    /\ outcome = "none"
    /\ EditorAtRest
    /\ EdgeAtRest

\* the updater of lines 94-105 called n times with the text it reads
RECURSIVE RunUpdaters(_, _, _)
RunUpdaters(prev, n, text) ==
    IF n = 0 THEN prev ELSE RunUpdaters(SetAssistant(prev, text), n - 1, text)

\* lines 89-109: the next Data payload of the stream is applied.  When a
\* delta is appended, setMessages takes the updater: it is called at once
\* (no update is waiting and the state is computed eagerly, or the root
\* renders on every setState), or it waits for the next render
PayloadArrives ==
    /\ UNCHANGED <<fileVars, edgeVars>>
    /\ pc = "read"
    /\ offset < Len(script[1] \o script[2])
    /\ \E st \in {ApplyPayload(LoopState, (script[1] \o script[2])[offset + 1])} :
          /\ assistantMessage' = st.assistantMessage
          /\ payloads' = st.payloads
          /\ deltas' = st.deltas
          /\ IF Len(st.deltas) = Len(deltas)
             THEN UNCHANGED <<messages, updaters>>
             ELSE \/ updaters = 0 /\ messages' = st.messages /\ UNCHANGED updaters
                  \/ messages' = messages /\ updaters' = updaters + 1
    /\ offset' = offset + 1
    /\ UNCHANGED <<ignored, isLoading, pc, script, body, pending, buffer, preSend, userTurn,
                   doneSeen, afterDone, toasts, dispatched, splitChar, outcome>>

\* the component renders: the queued updaters are called in order, and each
\* reads the assistantMessage of the invocation as it is now (lines 94-105
\* close over the variable)
Renders ==
    /\ UNCHANGED <<fileVars, edgeVars>>
    /\ pc = "read"
    /\ updaters > 0
    /\ messages' = RunUpdaters(messages, updaters, assistantMessage)
    /\ updaters' = 0
    /\ UNCHANGED <<ignored, isLoading, pc, script, body, offset, pending, buffer,
                   assistantMessage, preSend, userTurn, payloads, deltas, doneSeen,
                   afterDone, toasts, dispatched, splitChar, outcome>>

NextAccumulate == PayloadArrives \/ Renders

SpecAccumulate == InitAccumulate /\ [][NextAccumulate]_vars

\* C16: the text assembled from the payloads of A followed by those of B is
\* the text assembled from A followed by the text assembled from B; fed
\* twice, a list yields its text twice.
C16_AccumulationIsAppend ==
    offset = Len(script[1]) + Len(script[2]) =>
        /\ assistantMessage = TextOf(script[1]) \o TextOf(script[2])
        /\ script[1] = script[2]
              => assistantMessage = TextOf(script[1]) \o TextOf(script[1])

\* a list with a delta and a skipped payload has been fed twice
C16_Witness ==
    /\ offset = Len(script[1]) + Len(script[2])
    /\ script[1] = script[2]
    /\ script[1] = <<PayloadHel, PayloadBadJson>>
    /\ Len(deltas) = 2

\* the assistant content the stream has written to the turns so far
WrittenTo(ms) ==
    IF Len(ms) > Len(preSend) + 1 THEN ms[Len(ms)].content ELSE <<>>

\* the turns are those before the send, the user turn and at most one
\* assistant turn
OneTurnAdded(ms) ==
    /\ Len(ms) \in {Len(preSend) + 1, Len(preSend) + 2}
    /\ SubSeq(ms, 1, Len(preSend) + 1) = Append(preSend, userTurn)
    /\ Len(ms) = Len(preSend) + 2 => ms[Len(ms)].role = "assistant"

\* C17: during a stream the assistant content written to the turns only
\* grows: every value written is the previously written value with one
\* delta appended; every appended delta is followed by a write; the stream
\* adds one assistant turn at most.
C17_WrittenContentGrows ==
    [][/\ messages' # messages
            => /\ \E d \in {deltas'[i] : i \in 1..Len(deltas')} :
                     WrittenTo(messages') = WrittenTo(messages) \o d
               /\ updaters + (Len(deltas') - Len(deltas)) = 1
       /\ Len(deltas') # Len(deltas)
            => (messages' # messages \/ updaters' > updaters)
       /\ OneTurnAdded(messages')]_vars

-----------------------------------------------------------------------------
(* Properties of the frame loop on skipped lines                           *)

\* the stream has no terminator, or ends with it
DoneOnlyLast(ls) == \A i \in 1..(Len(ls) - 1) : ls[i] # LineDone

\* the turns a stream leaves when its deltas are ds
TurnsAfter(ds) ==
    IF ds = <<>> THEN Append(preSend, userTurn)
    ELSE preSend \o <<userTurn, Msg("assistant", Join(ds))>>

\* C18: a line that is blank, a comment, no Data frame, or a Data frame whose
\* payload is no JSON or has no choices[0].delta.content adds nothing to the
\* assembled text and to the turns, and the frames after it are processed:
\* the stream leaves the deltas and turns of its delta frames alone.
C18_SkippedLinesChangeNothing ==
    (outcome = "ok" /\ DoneOnlyLast(LinesOf(body)))
        => /\ deltas = DeltasOf(LinesOf(body))
           /\ messages = TurnsAfter(DeltasOf(LinesOf(body)))

\* a stream with a skipped line between two delta frames has been read
C18_Witness ==
    /\ outcome = "ok"
    /\ \E l \in SkippedLines : LinesOf(body) = <<LineHel, l, LineEAcute>>
    /\ deltas = <<<<72, 101, 108>>, <<233>>>>

-----------------------------------------------------------------------------
(* Properties of handleFileAction on a failing write                       *)

\* call i, whose write the store has rejected, reaches its catch in this step
FailureStepOf(i) ==
    /\ tasks[i].stage = "written"
    /\ tasks[i].error # ""
    /\ tasks' = Without(tasks, i)

\* C19: when the write of an intent fails, the store is as it was before
\* the write, so the records earlier intents wrote keep what they hold
\* (nothing is rolled back), and the catch of the call raises the error
\* notification and writes nothing.
C19_FailureIsReportedNotRolledBack ==
    [][\A i \in 1..Len(tasks) :
          /\ (WriteStepOf(i) /\ tasks'[i].error # "") => db' = db
          /\ FailureStepOf(i)
                => /\ fileToasts' = Append(fileToasts, "Error updating file")
                   /\ db' = db]_vars

\* the first create of a batch wrote a.js, the second was rejected and
\* reported, and the record holds what the first wrote
C19_Witness ==
    /\ tasks = <<>>
    /\ remotes = 0
    /\ \E e \in log : e.src = "intent" /\ e.k = "insert" /\ e.error = "" /\ e.nth = 1
    /\ \E e \in log : e.src = "intent" /\ e.k = "insert" /\ e.error # "" /\ e.nth = 2
    /\ fileToasts = <<"Error updating file">>
    /\ db = {[id |-> 1, path |-> JStr(PathA), content |-> JStr(ContentOne),
              language |-> JStr(LangJs)]}

-----------------------------------------------------------------------------
(* Properties of handleSend on the dispatch of the actions                 *)

\* the number of "Files updated" notifications raised
UpdatedToasts == Cardinality({i \in 1..Len(toasts) : toasts[i] = "Files updated"})

\* C20: actions are handed to onFileAction only when read() has reported the
\* end of the body, and once per send; when the read fails (the connection
\* breaks, the request is aborted) the loop is left, the text read so far
\* is not searched for actions, nothing is dispatched and no record is
\* written.
C20_DispatchOnlyAfterNormalEnd ==
    /\ (dispatched # <<>> \/ UpdatedToasts > 0) => outcome = "ok"
    /\ UpdatedToasts <= 1
    /\ outcome = "read failed"
          => /\ pc = "idle"
             /\ dispatched = <<>>
             /\ toasts = <<"Error">>
             /\ db = {} /\ tasks = <<>>

\* the read failed after a delta that holds a complete block of actions
C20_Witness ==
    /\ outcome = "read failed"
    /\ ExtractActions(Join(deltas)).actions # <<>>
    /\ dispatched = <<>>

-----------------------------------------------------------------------------
(* Properties of loadFiles and of the file subscription                    *)

\* C21: when two reloads hold the rows of the same state of the store,
\* applying both leaves the local files and the selected file as applying
\* one of them does.
C21_ReloadTwiceIsReloadOnce ==
    \A i, j \in 1..Len(tasks) :
        (i # j /\ tasks[i].stage = "apply" /\ tasks[j].stage = "apply"
           /\ tasks[i].snap = tasks[j].snap)
            => Loaded(Loaded(Render(files, selectedFile), tasks[i]), tasks[j])
                 = Loaded(Render(files, selectedFile), tasks[i])

\* C22: while the channel is subscribed, a change notification of the
\* project starts a reload (the loadFiles of the effect); once the channel
\* is removed, a notification starts none.
C22_NotificationsReloadWhileSubscribed ==
    [][notes' < notes
          => IF subscribed
             THEN tasks' = Append(tasks, LoadTask(FirstRender))
             ELSE tasks' = tasks /\ files' = files /\ selectedFile' = selectedFile]_vars

\* a notification was reloaded while the channel was subscribed; the view
\* shows the write of the other session
C22_Witness ==
    /\ subscribed
    /\ log # {}
    /\ notes = 0
    /\ tasks = <<>>
    /\ files = SelectByPath(db)
    /\ \E e \in log : e.k = "update"

\* a notification came after the channel was removed: no reload is in
\* flight and the view does not show the write of the other session
C22_WitnessRemoved ==
    /\ ~subscribed
    /\ log # {}
    /\ notes = 0
    /\ tasks = <<>>
    /\ files # SelectByPath(db)

-----------------------------------------------------------------------------
(* Properties of the batch of one assistant message                        *)

\* call i is a call of handleFileAction (not a loadFiles of the effect)
IsCall(i) == tasks[i].act # JUndefined

\* C23: the intents of one assistant message are applied one after the
\* other in list order: the store runs the write of an intent only when
\* the calls of the intents before it, their reloads included, have ended.
C23_IntentsAppliedInSequence ==
    [][\A j \in 1..Len(tasks) :
          (WriteStepOf(j) /\ sends = 1)
              => \A i \in 1..(j - 1) : ~IsCall(i)]_vars

\* the call of the edit that follows the create of b.js ends in this step
EditAfterCreateEnds(j) ==
    /\ tasks[j].act = Edit(PathB, ContentTwo, LangJs)
    /\ tasks[j].stage = "apply"
    /\ tasks' = Without(tasks, j)

\* C24: in a batch where Create(p) is followed by an Edit, the Edit is
\* applied to the record Create(p) made the selected file: when both calls
\* have ended, the create was accepted and nobody else wrote, the record of
\* p holds the content of the Edit.
C24_EditSeesCreatedSelection ==
    [][\A j \in 1..Len(tasks) :
          (/\ EditAfterCreateEnds(j)
           /\ Len(tasks) = 1 /\ sends = 1 /\ remotes = 0
           /\ \E e \in log : /\ e.act = Create(PathB, ContentOne, LangJs)
                             /\ e.k = "insert" /\ e.error = "")
              => \E r \in db' : r.path = JStr(PathB) /\ r.content = JStr(ContentTwo)]_vars

\* the rows of a loadFiles of the effect (the first load, or the reload of
\* a change notification) are applied in this step
EffectReloadOf(i) ==
    /\ tasks[i].stage = "apply"
    /\ ~IsCall(i)
    /\ tasks' = Without(tasks, i)

\* C25: a reload started by a change notification leaves the selected file,
\* and the content it holds, as they are when a file is selected; it
\* selects the first file only when none is selected.
C25_NotifiedReloadKeepsSelection ==
    [][\A i \in 1..Len(tasks) :
          EffectReloadOf(i)
              => /\ selectedFile # NoFile => selectedFile' = selectedFile
                 /\ (selectedFile = NoFile /\ Len(tasks[i].snap) > 0)
                       => selectedFile' = tasks[i].snap[1]]_vars

-----------------------------------------------------------------------------
(* Bodies that end without a newline (AIChat.tsx lines 71-111)             *)

\* the bound of the lines before the unterminated one
MaxHeadLines == 2

\* the newline-terminated lines before the last one: no terminator
HeadLineSeqs ==
    {ls \in LineSeqs : /\ Len(ls) <= MaxHeadLines
                       /\ \A i \in 1..Len(ls) : ls[i] # LineDone}

\* the last line, which lacks its newline: a delta frame, a delta frame
\* before its "\r", the terminator
TailLines == {LineHel, LineEAcute, LineDone}

UnterminatedBodies == {Terminated(ls) \o t : ls \in HeadLineSeqs, t \in TailLines}

\* handleSend at line 71, the reader on a body that ends inside a line
InitTail ==
    /\ preSend \in Histories
    /\ userTurn = Msg("user", TextHi)
    /\ messages = Append(preSend, userTurn)
    /\ updaters = 0
    /\ ignored = 0
    /\ isLoading = TRUE
    /\ pc = "read"
    /\ script = <<>>
    /\ body \in UnterminatedBodies
    /\ offset = 0
    /\ pending = DecoderInit
    /\ buffer = <<>>
    /\ assistantMessage = <<>>
    /\ payloads = <<>>
    /\ deltas = <<>>
    /\ doneSeen = FALSE
    /\ afterDone = 0
    /\ toasts = <<>>
    /\ dispatched = <<>>
    /\ splitChar = FALSE
    /\ outcome = "none"
    /\ EditorAtRest
    /\ EdgeAtRest

NextTail == ReadChunk \/ ReadDone

SpecTail == InitTail /\ [][NextTail]_vars

\* the lines of the body that have their newline
HeadLinesOf(bytes) == LinesOf(SubSeq(bytes, 1, LastIndexOf(bytes, NL)))

\* C26: when the body ends without a final newline, the text after the last
\* newline is never processed as a frame: whatever the chunking, the deltas
\* and the turns at the end are those of the terminated lines.
C26_UnterminatedTailIsDropped ==
    outcome = "ok"
        => /\ deltas = DeltasOf(HeadLinesOf(body))
           /\ messages = TurnsAfter(DeltasOf(HeadLinesOf(body)))

\* a body of one delta frame and an unterminated delta frame has been read
\* to its end, the last frame in a chunk of its own
C26_Witness ==
    /\ outcome = "ok"
    /\ body = Terminated(<<LineEAcute>>) \o LineHel
    /\ deltas = <<<<233>>>>
    /\ messages[Len(messages)] = Msg("assistant", <<233>>)

-----------------------------------------------------------------------------
(* Properties of the extraction on contents with braces                    *)

\* C27: from prose without braces followed by one valid action object and
\* nothing after it, every action of the object is extracted, in order,
\* also when the file contents hold '{' or '}', balanced or not.
C27_BracesInContentsAreKept ==
    outcome = "ok" =>
        \A b \in TwoActionBlocks :
            AssembledText = b.text
                => /\ dispatched = b.actions
                   /\ toasts = <<"Files updated">>

\* two actions whose contents are "}{" and "{" were extracted after prose
C27_Witness ==
    /\ outcome = "ok"
    /\ \E b \in TwoActionBlocks :
          /\ AssembledText = b.text
          /\ b.actions = <<Create(PathA, <<125, 123>>, LangJs),
                           Edit(PathB, <<123>>, LangJs)>>
          /\ IndexOf(b.text, 123) > 1
          /\ dispatched = b.actions

-----------------------------------------------------------------------------
(* Properties of the guard and of the loading flag of handleSend           *)

\* a user turn is appended in this step
UserTurnAdded ==
    /\ Len(messages') = Len(messages) + 1
    /\ messages'[Len(messages')].role = "user"

\* C28: one send at most is in flight: a send that has not ended keeps the
\* loading flag set; a call of handleSend while the flag is set, or with a
\* blank input, appends no turn, issues no request and starts no stream;
\* every user turn appended has an input that is not blank.
C28_OneSendInFlight ==
    /\ [](pc # "idle" => isLoading)
    /\ [][/\ ignored' # ignored
               => UNCHANGED <<messages, isLoading, pc, script, body, offset,
                              assistantMessage, payloads, deltas, toasts>>
          /\ isLoading => (~UserTurnAdded /\ ~(pc # "fetch" /\ pc' = "fetch"))
          /\ UserTurnAdded => Trim(messages'[Len(messages')].content) # <<>>]_vars

\* handleSend was called, and returned at once, while the stream of the
\* send before was being read
C28_Witness ==
    /\ ignored = 1
    /\ isLoading
    /\ pc = "read"
    /\ deltas # <<>>
    /\ Len(messages) = Len(preSend) + 2

\* bytes of the body are left to read
BytesLeft == pc = "read" /\ offset < Len(body)

\* handleSend is answered: the fetch settles; the reads deliver the bytes
\* that are left (weak fairness of the chunks that are not empty, written
\* with the condition under which one can arrive) and then the end of the
\* body, unless a read fails
FairChat ==
    /\ WF_vars(FetchReject \/ FetchNotOk \/ FetchNoBody \/ FetchOk)
    /\ ([]<>~BytesLeft \/ []<><<ReadChunk>>_vars)
    /\ WF_vars(ReadDone)

SpecChatFair == SpecChat /\ FairChat

\* C29: every send clears the loading flag in the end, however handleSend
\* ends (end of the stream, failure before or inside the stream).
C29_LoadingIsCleared ==
    /\ isLoading ~> ~isLoading
    /\ [](pc = "idle" => ~isLoading)

\* a send after one that failed inside its stream has been accepted
C29_Witness ==
    /\ script = <<>>
    /\ isLoading
    /\ pc = "read"
    /\ toasts # <<>> /\ toasts[Len(toasts)] = "Error"
    /\ body = FollowUp.body

\* C30: after a send that ended without error the turn sequence ends with the
\* user turn of the send followed by one assistant turn, whatever the stream
\* carried.
C30_CompletedSendIsAnswered ==
    (outcome = "ok" /\ pc = "idle")
        => /\ Len(messages) = Len(preSend) + 2
           /\ messages[Len(messages) - 1] = userTurn
           /\ messages[Len(messages)].role = "assistant"

-----------------------------------------------------------------------------
(* ProjectEditor when the route changes to another project                 *)

\* migration lines 200-209: a row of public.files with its project_id
FileOf(project, id, path) ==
    [id |-> id, project_id |-> project, path |-> JStr(path),
     content |-> JStr(ContentOld), language |-> JStr(LangJs)]

\* public.files with the rows of two projects: each has no file, a.js, or
\* a.js and b.js
ProjectStores ==
    {s1 \cup s2 :
        s1 \in {{}, {FileOf(ProjectOne, 1, PathA)},
                {FileOf(ProjectOne, 1, PathA), FileOf(ProjectOne, 2, PathB)}},
        s2 \in {{}, {FileOf(ProjectTwo, 3, PathA)},
                {FileOf(ProjectTwo, 3, PathA), FileOf(ProjectTwo, 4, PathB)}}}

\* the render a loadFiles belongs to: its projectId, files and selectedFile
RenderOf(project, fs, sel) ==
    [projectId |-> project, files |-> fs, selectedFile |-> sel]

\* ProjectEditor.tsx lines 30-74: the first render of the route of project
\* one; its effect has called loadFiles() and subscribed the channel
InitProject ==
    /\ ChatAtRest
    /\ EdgeAtRest
    /\ db \in ProjectStores
    /\ nextId = Cardinality(db) + 1
    /\ files = <<>>
    /\ selectedFile = NoFile
    /\ loading = TRUE
    /\ handler = FirstRender
    /\ streaming = FALSE
    /\ sends = 0
    /\ tasks = <<LoadTask(RenderOf(ProjectOne, <<>>, NoFile))>>
    /\ notes = 0
    /\ subscribed = TRUE
    /\ projectId = ProjectOne
    /\ remotes = 0
    /\ log = {}
    /\ fileToasts = <<>>

\* lines 30 and 40-74: the route changes to another project while the editor
\* stays mounted. useParams gives the new projectId, the useState cells keep
\* their values, the cleanup removes the channel and the effect runs again:
\* loadFiles() of the new render, and a channel for the new project
ProjectChanges ==
    /\ Len(tasks) < MaxTasks
    /\ \E p \in {ProjectOne, ProjectTwo} \ {projectId} :
          /\ projectId' = p
          /\ tasks' = Append(tasks, LoadTask(RenderOf(p, files, selectedFile)))
    /\ subscribed' = TRUE
    /\ UNCHANGED <<db, nextId, files, selectedFile, loading, handler, streaming,
                   sends, notes, remotes, log, fileToasts>>
    /\ UNCHANGED <<chatVars, edgeVars>>

\* lines 108-112: the store answers the query of a loadFiles with the rows of
\* the projectId of its render, by path
ProjectSelects ==
    /\ \E i \in 1..Len(tasks) :
          /\ tasks[i].stage = "query"
          /\ tasks' = [tasks EXCEPT
                          ![i].stage = "apply",
                          ![i].snap = SelectByPath(
                              {r \in db : r.project_id = tasks[i].cl.projectId})]
    /\ UNCHANGED <<db, nextId, files, selectedFile, loading, handler, streaming,
                   sends, notes, remotes, log, fileToasts>>
    /\ UNCHANGED <<subscribed, projectId>>
    /\ UNCHANGED <<chatVars, edgeVars>>

NextProject ==
    \/ ProjectChanges
    \/ ProjectSelects
    \/ SelectAnswered

SpecProject == InitProject /\ [][NextProject]_vars

\* C31: every record of the local file collection, and the selected file,
\* is a record of the project of the current route.
C31_LocalFilesBelongToOpenProject ==
    /\ \A i \in 1..Len(files) : files[i].project_id = projectId
    /\ selectedFile # NoFile => selectedFile.project_id = projectId

\* C31, only in the states in which no reload is in flight
C31_AtRest == tasks = <<>> => C31_LocalFilesBelongToOpenProject

-----------------------------------------------------------------------------
(* Index.handleSendMessage: the read loop (Index.tsx lines 59-102)         *)

\* Index.tsx line 63: decoder.decode(value): every call decodes its bytes
\* from the start, and a character unfinished at the end becomes U+FFFD
DecodeChunk(bytes) == FlushDecoded(DecodeRun(bytes, DecoderInit, <<>>))

RECURSIVE SplitLines(_)
\* Index.tsx line 64: chunk.split('\n')
SplitLines(text) ==
    IF IndexOf(text, NL) = 0 THEN <<text>>
    ELSE <<SubSeq(text, 1, IndexOf(text, NL) - 1)>>
         \o SplitLines(SliceFrom(text, IndexOf(text, NL)))

\* Index.tsx lines 67-100: one line of a chunk; '[DONE]' is passed over, a
\* payload that does not parse is skipped, a truthy content is appended
IndexLine(st, line) ==
    IF ~StartsWith(line, DataPrefix) THEN st
    ELSE IF SliceFrom(line, 6) = DoneSentinel THEN st
    ELSE ApplyParsed(st, JSONParse(SliceFrom(line, 6)))

RECURSIVE IndexLines(_, _)
\* Index.tsx line 66: for (const line of lines)
IndexLines(st, lines) ==
    IF lines = <<>> THEN st
    ELSE IndexLines(IndexLine(st, Head(lines)), Tail(lines))

\* Index.tsx lines 63-101: one chunk; decoder.decode(value) is called without
\* {stream: true}, and the chunk is split on its own
IndexOnChunk(st, value) == IndexLines(st, SplitLines(DecodeChunk(value).text))

\* Index.tsx line 53: let assistantMessage = "", with the turns shown
IndexInit(msgs) ==
    [assistantMessage |-> <<>>, messages |-> msgs, deltas |-> <<>>,
     doneSeen |-> FALSE, afterDone |-> 0]

\* the frame streams the function answers with: newline-terminated lines that
\* end with the terminator
WellFormedBodies == {Terminated(ls) : ls \in {l \in LineSeqs : WellFormedLines(l)}}

\* Index.tsx lines 27-53: handleSendMessage("hi") has appended the user turn,
\* set the flag, and fetch has resolved with a 2xx response and a body
InitIndex ==
    /\ EditorAtRest
    /\ EdgeAtRest
    /\ messages = <<Msg("user", TextHi)>>
    /\ updaters = 0
    /\ ignored = 0
    /\ isLoading = TRUE
    /\ pc = "read"
    /\ script = <<>>
    /\ body \in WellFormedBodies
    /\ offset = 0
    /\ pending = DecoderInit
    /\ buffer = <<>>
    /\ assistantMessage = <<>>
    /\ preSend = <<>>
    /\ userTurn = Msg("user", TextHi)
    /\ payloads = <<>>
    /\ deltas = <<>>
    /\ doneSeen = FALSE
    /\ afterDone = 0
    /\ toasts = <<>>
    /\ dispatched = <<>>
    /\ splitChar = FALSE
    /\ outcome = "none"

\* Index.tsx lines 60-101: read() resolves with a chunk: a few bytes, or all
\* that is left of the body
IndexReadChunk ==
    /\ UNCHANGED <<fileVars, edgeVars>>
    /\ pc = "read"
    /\ offset < Len(body)
    /\ \E k \in (1..MaxChunk) \cup {Len(body) - offset} :
          /\ offset + k <= Len(body)
          /\ \E st \in {IndexOnChunk([IndexInit(messages) EXCEPT
                                         !.assistantMessage = assistantMessage,
                                         !.deltas = deltas],
                                     SubSeq(body, offset + 1, offset + k))} :
                /\ assistantMessage' = st.assistantMessage
                /\ messages' = st.messages
                /\ deltas' = st.deltas
          /\ splitChar' = (splitChar
                           \/ Decode(DecoderInit,
                                     SubSeq(body, offset + 1, offset + k)).st.need > 0)
          /\ offset' = offset + k
    /\ UNCHANGED <<updaters, ignored>>
    /\ UNCHANGED <<isLoading, pc, script, body, pending, buffer, preSend, userTurn,
                   payloads, doneSeen, afterDone, toasts, dispatched, outcome>>

\* Index.tsx lines 60-61 and 110-112: read() resolves with done; finally
\* clears the flag
IndexReadDone ==
    /\ UNCHANGED <<fileVars, edgeVars>>
    /\ pc = "read"
    /\ offset = Len(body)
    /\ isLoading' = FALSE
    /\ pc' = "idle"
    /\ outcome' = "ok"
    /\ Leave
    /\ UNCHANGED <<updaters, ignored>>
    /\ UNCHANGED <<messages, script, body, preSend, userTurn, payloads, deltas,
                   doneSeen, afterDone, toasts, dispatched, splitChar>>

NextIndex == IndexReadChunk \/ IndexReadDone

SpecIndex == InitIndex /\ [][NextIndex]_vars

\* C32: in Index.handleSendMessage the turns shown after a well-formed frame
\* stream are those shown when the same bytes arrive as one chunk, whatever
\* the partition into chunks.
C32_IndexChunkingKeepsMessage ==
    (pc = "idle" /\ outcome = "ok")
        => /\ messages = IndexOnChunk(IndexInit(<<userTurn>>), body).messages
           /\ deltas = IndexOnChunk(IndexInit(<<userTurn>>), body).deltas

-----------------------------------------------------------------------------
(* supabase/functions/ai-code-assistant (index.ts lines 8-101)             *)

\* new Response(JSON.stringify({error}), {status, 'Content-Type': json})
JsonError(status, error) ==
    [status |-> status, type |-> "application/json", body |-> <<>>, error |-> error]

\* lines 85-90: new Response(response.body, {'Content-Type': event-stream});
\* the status is the default one
EventStream(bytes) ==
    [status |-> 200, type |-> "text/event-stream", body |-> bytes, error |-> ""]

\* line 10: new Response(null, { headers: corsHeaders })
Preflight == [status |-> 200, type |-> "", body |-> <<>>, error |-> ""]

\* the gateway has not been asked
NoUpstream == Response("none", 0, FALSE, <<>>)

\* what fetch of line 23 can give: a rejection, a response whose status is
\* not ok, or a 200 with a frame stream
GatewayOutcomes ==
    {Response("reject", 0, FALSE, <<>>)}
    \cup {Response("response", st, TRUE, <<>>) : st \in {402, 404, 429, 500}}
    \cup {Response("response", 200, TRUE, b) : b \in WellFormedBodies}

\* response.ok
IsOk(r) == r.kind = "response" /\ r.status >= 200 /\ r.status <= 299

\* a request to the function: its method, whether req.json() resolves,
\* whether LOVABLE_API_KEY is set, and whether the body holds a messages
\* array
AssistantCall(method, readable, key, hasMessages) ==
    [fn |-> "ai-code-assistant", pc |-> "start", method |-> method,
     readable |-> readable, key |-> key, hasMessages |-> hasMessages,
     upstream |-> NoUpstream]

\* lines 9-59: what the handler does before the fetch is awaited: the
\* Response it returns, or NoAnswer when the gateway is called
BeforeFetch(c) ==
    IF c.method = "OPTIONS" THEN Preflight
    ELSE IF ~c.readable THEN JsonError(500, "Unexpected end of JSON input")
    ELSE IF ~c.key THEN JsonError(500, "LOVABLE_API_KEY is not configured")
    ELSE IF ~c.hasMessages THEN JsonError(500, "messages is not iterable")
    ELSE NoAnswer

\* a handler in which every gateway failure reaches the throw of line 82
AfterFetchThrows(r) ==
    IF r.kind = "reject" THEN JsonError(500, "fetch failed")
    ELSE IF ~IsOk(r) THEN JsonError(500, "AI gateway error")
    ELSE EventStream(r.body)

\* lines 61-99: what the handler returns once the fetch has settled
AfterFetch(r) ==
    IF r.kind = "reject" THEN JsonError(500, "fetch failed")
    ELSE IF ~IsOk(r)
    THEN (IF r.status = 429
          THEN JsonError(429, "Rate limit exceeded. Please try again later.")
          ELSE IF r.status = 402
          THEN JsonError(402, "AI credits depleted. Please add credits to continue.")
          ELSE JsonError(500, "AI gateway error"))
    ELSE EventStream(r.body)

\* a request has reached the function
InitAssistant ==
    /\ ChatAtRest
    /\ EditorAtRest
    /\ messageRows = <<>>
    /\ runs = <<>>
    /\ call \in {AssistantCall(m, r, k, ms) :
                    m \in {"OPTIONS", "POST", "GET"}, r \in BOOLEAN, k \in BOOLEAN,
                    ms \in BOOLEAN}
    /\ sent = <<>>
    /\ answer = NoAnswer

\* lines 9-59: the handler runs up to the fetch, or returns before it
AssistantStarts ==
    /\ call.fn = "ai-code-assistant"
    /\ call.pc = "start"
    /\ answer' = BeforeFetch(call)
    /\ IF BeforeFetch(call) = NoAnswer
       THEN /\ call' = [call EXCEPT !.pc = "fetch"]
            /\ sent' = Append(sent, [fn |-> call.fn, messages |-> <<>>])
       ELSE /\ call' = [call EXCEPT !.pc = "done"]
            /\ sent' = sent
    /\ UNCHANGED <<messageRows, runs>>
    /\ UNCHANGED <<chatVars, fileVars>>

\* lines 23-99: the fetch settles and the handler returns
AssistantFetched ==
    /\ call.fn = "ai-code-assistant"
    /\ call.pc = "fetch"
    /\ \E r \in GatewayOutcomes :
          /\ call' = [call EXCEPT !.pc = "done", !.upstream = r]
          /\ answer' = AfterFetch(r)
    /\ UNCHANGED <<messageRows, runs, sent>>
    /\ UNCHANGED <<chatVars, fileVars>>

NextAssistant == AssistantStarts \/ AssistantFetched

SpecAssistant == InitAssistant /\ [][NextAssistant]_vars

\* the gateway answered with the status st
UpstreamStatus(st) == call.upstream.kind = "response" /\ call.upstream.status = st

\* C33: ai-code-assistant answers an upstream 429 with 429 and an upstream
\* 402 with 402, each with a JSON error body; every other upstream failure,
\* a missing key and an unreadable request body with 500; the upstream body
\* is passed through as an event stream exactly on upstream success; an
\* OPTIONS request never calls upstream.
C33_AssistantStatuses ==
    (call.fn = "ai-code-assistant" /\ call.pc = "done") =>
        /\ call.method = "OPTIONS" => (sent = <<>> /\ call.upstream = NoUpstream)
        /\ UpstreamStatus(429) =>
              (answer.status = 429 /\ answer.type = "application/json")
        /\ UpstreamStatus(402) =>
              (answer.status = 402 /\ answer.type = "application/json")
        /\ (/\ call.method # "OPTIONS"
            /\ \/ ~call.readable
               \/ ~call.key
               \/ call.upstream.kind = "reject"
               \/ (/\ call.upstream.kind = "response"
                   /\ ~IsOk(call.upstream)
                   /\ call.upstream.status \notin {402, 429}))
              => (answer.status = 500 /\ answer.type = "application/json")
        /\ answer.type = "text/event-stream"
              <=> (IsOk(call.upstream) /\ answer.body = call.upstream.body)

\* an upstream 429 has been answered
C33_Witness ==
    /\ call.fn = "ai-code-assistant"
    /\ call.pc = "done"
    /\ UpstreamStatus(429)
    /\ answer.status = 429
    /\ Len(sent) = 1

-----------------------------------------------------------------------------
(* supabase/functions/ai-message-processor (index.ts lines 13-99)          *)

\* the number of invocations of the function
MaxRuns == 2

\* a row of public.message (second migration, lines 48-55); replyTo is not a
\* column: it records for which message an AI reply was generated
MessageRow(id, sender, text, status, replyTo) ==
    [id |-> id, sender |-> sender, message_text |-> text, status |-> status,
     replyTo |-> replyTo]

\* public.message when the function is first invoked: one or two pending
\* user messages, possibly after an exchange that is complete
MessageTables ==
    {<<MessageRow(1, "user", TextHi, "pending", 0)>>,
     <<MessageRow(1, "user", TextHi, "pending", 0),
       MessageRow(2, "user", TextOk, "pending", 0)>>,
     <<MessageRow(1, "user", TextHi, "answered", 0),
       MessageRow(2, "ai", TextOk, "answered", 1),
       MessageRow(3, "user", TextOk, "pending", 0)>>}

\* select("*").eq("status", "pending").order("created_at")
PendingOf(rows) == SelectSeq(rows, LAMBDA m : m.status = "pending")

\* update({status: "answered"}).eq("id", id)
SetAnswered(rows, id) ==
    [k \in 1..Len(rows) |->
        IF rows[k].id = id THEN [rows[k] EXCEPT !.status = "answered"] ELSE rows[k]]

\* lines 67-71: insert([{sender: "ai", message_text: aiReply, status: "answered"}])
InsertReply(rows, aiReply, id) ==
    Append(rows, MessageRow(Len(rows) + 1, "ai", aiReply, "answered", id))

\* an invocation that has created its client (lines 18-22); failed and
\* updated record the messages whose processing threw and the messages this
\* invocation has set to 'answered'
NewRun ==
    [pc |-> "select", pendingMessages |-> <<>>, i |-> 0, aiReply |-> <<>>,
     processed |-> <<>>, failed |-> <<>>, updated |-> <<>>,
     response |-> [status |-> 0, processed |-> 0]]

\* lines 43 and 88-91: the next message of the loop, or the response
NextMessage(run) ==
    IF run.i < Len(run.pendingMessages)
    THEN [run EXCEPT !.i = run.i + 1, !.pc = "fetch", !.aiReply = <<>>]
    ELSE [run EXCEPT !.pc = "done",
                     !.response = [status |-> 200, processed |-> Len(run.processed)]]

\* a catch that leaves the loop
FailedLeavesLoop(run) ==
    [run EXCEPT !.failed = Append(run.failed, run.pendingMessages[run.i].id),
                !.pc = "done",
                !.response = [status |-> 200, processed |-> Len(run.processed)]]

\* lines 83-85: the catch inside the loop
Failed(run) ==
    NextMessage([run EXCEPT
                    !.failed = Append(run.failed, run.pendingMessages[run.i].id)])

\* line 82: processed.push(msg.id)
Processed(run) ==
    NextMessage([run EXCEPT
                    !.processed = Append(run.processed, run.pendingMessages[run.i].id)])

\* lines 24-39: the rows of the select arrive
Selected(run, rows) ==
    IF PendingOf(rows) = <<>>
    THEN [run EXCEPT !.pc = "done", !.response = [status |-> 200, processed |-> 0]]
    ELSE NextMessage([run EXCEPT !.pendingMessages = PendingOf(rows)])

InitProcessor ==
    /\ ChatAtRest
    /\ EditorAtRest
    /\ messageRows \in MessageTables
    /\ runs = <<>>
    /\ call = NoCall
    /\ sent = <<>>
    /\ answer = NoAnswer

\* lines 13-28: the function is invoked (by a client, or by a schedule) and
\* sends its select
ProcessorInvoked ==
    /\ Len(runs) < MaxRuns
    /\ runs' = Append(runs, NewRun)
    /\ UNCHANGED <<messageRows, call, sent, answer>>
    /\ UNCHANGED <<chatVars, fileVars>>

\* lines 24-39 and 92-98: the select is answered, with the pending rows or
\* with an error
ProcessorSelected ==
    /\ \E r \in 1..Len(runs) :
          /\ runs[r].pc = "select"
          /\ \/ runs' = [runs EXCEPT ![r] = Selected(runs[r], messageRows)]
             \/ runs' = [runs EXCEPT ![r].pc = "done",
                                     ![r].response = [status |-> 500, processed |-> 0]]
    /\ UNCHANGED <<messageRows, call, sent, answer>>
    /\ UNCHANGED <<chatVars, fileVars>>

\* lines 50-65: the model answers with a reply; or the fetch rejects, the
\* status is not ok, the body is no JSON, or it holds no text
ProcessorFetched ==
    /\ \E r \in 1..Len(runs) :
          /\ runs[r].pc = "fetch"
          /\ \/ runs' = [runs EXCEPT ![r].pc = "insert", ![r].aiReply = TextOk]
             \/ runs' = [runs EXCEPT ![r] = Failed(runs[r])]
    /\ UNCHANGED <<messageRows, call, sent, answer>>
    /\ UNCHANGED <<chatVars, fileVars>>

\* lines 67-73: the store inserts the AI reply, or answers with an error
ProcessorInserted ==
    /\ \E r \in 1..Len(runs) :
          /\ runs[r].pc = "insert"
          /\ \/ /\ messageRows' = InsertReply(messageRows, runs[r].aiReply,
                                              runs[r].pendingMessages[runs[r].i].id)
                /\ runs' = [runs EXCEPT ![r].pc = "update"]
             \/ /\ messageRows' = messageRows
                /\ runs' = [runs EXCEPT ![r] = Failed(runs[r])]
    /\ UNCHANGED <<call, sent, answer>>
    /\ UNCHANGED <<chatVars, fileVars>>

\* lines 75-82: the store sets the status of the message, or answers with an
\* error
ProcessorUpdated ==
    /\ \E r \in 1..Len(runs) :
          /\ runs[r].pc = "update"
          /\ \/ /\ messageRows' = SetAnswered(messageRows,
                                              runs[r].pendingMessages[runs[r].i].id)
                /\ runs' = [runs EXCEPT ![r] =
                               Processed([runs[r] EXCEPT !.updated =
                                   Append(runs[r].updated,
                                          runs[r].pendingMessages[runs[r].i].id)])]
             \/ /\ messageRows' = messageRows
                /\ runs' = [runs EXCEPT ![r] = Failed(runs[r])]
    /\ UNCHANGED <<call, sent, answer>>
    /\ UNCHANGED <<chatVars, fileVars>>

NextProcessor ==
    \/ ProcessorInvoked
    \/ ProcessorSelected
    \/ ProcessorFetched
    \/ ProcessorInserted
    \/ ProcessorUpdated

SpecProcessor == InitProcessor /\ [][NextProcessor]_vars

\* the AI replies generated for the message id
RepliesTo(id) == {k \in 1..Len(messageRows) : messageRows[k].replyTo = id}

\* C34: every user message has at most one AI reply record, whatever the
\* invocations of ai-message-processor do.
C34_AtMostOneReply ==
    \A k \in 1..Len(messageRows) :
        messageRows[k].sender = "user"
            => Cardinality(RepliesTo(messageRows[k].id)) <= 1

\* the status of the message id
StatusOf(rows, id) == rows[CHOOSE k \in 1..Len(rows) : rows[k].id = id].status

\* the invocation r has caught a failure in this step
FailureOf(r) == r <= Len(runs') /\ Len(runs'[r].failed) > Len(runs[r].failed)

\* C35: a message is 'answered' only when an AI reply for it has been
\* inserted; an invocation that has returned has gone through all the pending
\* messages it read, whether their processing failed or not, and its
\* processed count is the number of messages it has set to 'answered'; a
\* failure while processing a message does not change the message's status.
C35_FailuresLeavePending ==
    /\ [](\A k \in 1..Len(messageRows) :
             (messageRows[k].sender = "user" /\ messageRows[k].status = "answered")
                 => RepliesTo(messageRows[k].id) # {})
    /\ [](\A r \in 1..Len(runs) :
             (runs[r].pc = "done" /\ runs[r].response.status = 200)
                 => /\ Len(runs[r].processed) + Len(runs[r].failed)
                           = Len(runs[r].pendingMessages)
                    /\ runs[r].response.processed = Len(runs[r].updated)
                    /\ \A j \in 1..Len(runs[r].failed) :
                          \A l \in 1..Len(runs[r].updated) :
                              runs[r].failed[j] # runs[r].updated[l])
    /\ [][\A r \in 1..Len(runs) :
             FailureOf(r)
                 => StatusOf(messageRows', runs[r].pendingMessages[runs[r].i].id)
                        = StatusOf(messageRows, runs[r].pendingMessages[runs[r].i].id)]_vars

\* an invocation has returned after a failure on the first of two pending
\* messages and an answer to the second, which it counts
C35_Witness ==
    \E r \in 1..Len(runs) :
        /\ runs[r].pc = "done"
        /\ Len(runs[r].pendingMessages) = 2
        /\ runs[r].failed = <<1>>
        /\ runs[r].processed = <<2>>
        /\ runs[r].response = [status |-> 200, processed |-> 1]
        /\ StatusOf(messageRows, 1) = "pending"
        /\ StatusOf(messageRows, 2) = "answered"

-----------------------------------------------------------------------------
(* supabase/functions/ai-responder (index.ts lines 9-100)                  *)

\* line 63: the system message (its text is not followed here)
SystemTurn == Msg("system", <<>>)

\* lines 39-42: the turn made of a stored message
TurnOf(m) ==
    Msg(IF m.sender = "user" THEN "user" ELSE "assistant", m.message_text)

\* lines 37-42: messages.filter(m => m.id !== messageId).map(...)
HistoryOf(rows, messageId) ==
    [k \in 1..Len(SelectSeq(rows, LAMBDA m : m.id # messageId)) |->
        TurnOf(SelectSeq(rows, LAMBDA m : m.id # messageId)[k])]

\* line 45: messages.find(m => m.id === messageId) has found a message
Found(rows, messageId) == \E k \in 1..Len(rows) : rows[k].id = messageId

\* line 45: the message found
CurrentMessage(rows, messageId) ==
    rows[CHOOSE k \in 1..Len(rows) :
            rows[k].id = messageId /\ \A j \in 1..(k - 1) : rows[j].id # messageId]

\* a history that is not filtered
ConversationUnfiltered(rows, messageId) ==
    <<SystemTurn>> \o [k \in 1..Len(rows) |-> TurnOf(rows[k])]
        \o <<Msg("user", CurrentMessage(rows, messageId).message_text)>>

\* lines 37-51 and 62-65: the messages sent to the gateway
ConversationOf(rows, messageId) ==
    <<SystemTurn>> \o HistoryOf(rows, messageId)
        \o <<Msg("user", CurrentMessage(rows, messageId).message_text)>>

\* a request to the function: its method, whether LOVABLE_API_KEY is set,
\* whether req.json() resolves, the messageId of the body (0: the body has
\* none), and the number of rows stored when it arrives
ResponderCall(method, key, readable, messageId, stored) ==
    [fn |-> "ai-responder", pc |-> "start", method |-> method, key |-> key,
     readable |-> readable, messageId |-> messageId, stored |-> stored,
     rows |-> <<>>, reply |-> <<>>, upstream |-> NoUpstream]

InitResponder ==
    /\ ChatAtRest
    /\ EditorAtRest
    /\ messageRows \in MessageTables
    /\ runs = <<>>
    /\ call \in {ResponderCall(m, k, r, id, Len(messageRows)) :
                    m \in {"OPTIONS", "POST"}, k \in BOOLEAN, r \in BOOLEAN,
                    id \in 0..4}
    /\ sent = <<>>
    /\ answer = NoAnswer

\* lines 10-32: the handler runs up to the select, or returns before it
ResponderStarts ==
    /\ call.fn = "ai-responder"
    /\ call.pc = "start"
    /\ IF call.method = "OPTIONS"
       THEN /\ answer' = Preflight
            /\ call' = [call EXCEPT !.pc = "done"]
       ELSE IF ~call.key
       THEN /\ answer' = JsonError(500, "LOVABLE_API_KEY not configured")
            /\ call' = [call EXCEPT !.pc = "done"]
       ELSE IF ~call.readable
       THEN /\ answer' = JsonError(500, "Unexpected end of JSON input")
            /\ call' = [call EXCEPT !.pc = "done"]
       ELSE /\ answer' = answer
            /\ call' = [call EXCEPT !.pc = "select"]
    /\ UNCHANGED <<messageRows, runs, sent>>
    /\ UNCHANGED <<chatVars, fileVars>>

\* lines 29-67: the select is answered with an error, or with the rows; the
\* conversation is built and sent, unless the message is not among them
ResponderSelected ==
    /\ call.fn = "ai-responder"
    /\ call.pc = "select"
    /\ \/ /\ answer' = JsonError(500, "select failed")
          /\ call' = [call EXCEPT !.pc = "done"]
          /\ sent' = sent
       \/ /\ ~Found(messageRows, call.messageId)
          /\ answer' = JsonError(500, "Message not found")
          /\ call' = [call EXCEPT !.pc = "done", !.rows = messageRows]
          /\ sent' = sent
       \/ /\ Found(messageRows, call.messageId)
          /\ answer' = answer
          /\ call' = [call EXCEPT !.pc = "fetch", !.rows = messageRows]
          /\ sent' = Append(sent, [fn |-> call.fn,
                                   messages |-> ConversationOf(messageRows,
                                                               call.messageId)])
    /\ UNCHANGED <<messageRows, runs>>
    /\ UNCHANGED <<chatVars, fileVars>>

\* lines 54-76: the gateway answers with a completion; or the fetch rejects,
\* the status is not ok, or the body holds no choices[0].message
ResponderFetched ==
    /\ call.fn = "ai-responder"
    /\ call.pc = "fetch"
    /\ \/ /\ answer' = answer
          /\ call' = [call EXCEPT !.pc = "insert", !.reply = TextOk,
                                  !.upstream = Response("response", 200, TRUE, <<>>)]
       \/ \E r \in {Response("reject", 0, FALSE, <<>>),
                    Response("response", 429, TRUE, <<>>),
                    Response("response", 500, TRUE, <<>>)} :
             /\ answer' = JsonError(500, "Failed to get AI response")
             /\ call' = [call EXCEPT !.pc = "done", !.upstream = r]
    /\ UNCHANGED <<messageRows, runs, sent>>
    /\ UNCHANGED <<chatVars, fileVars>>

\* lines 79-92: the store inserts the AI message, or answers with an error
ResponderInserted ==
    /\ call.fn = "ai-responder"
    /\ call.pc = "insert"
    /\ \/ /\ messageRows' = Append(messageRows,
                                   MessageRow(Len(messageRows) + 1, "ai", call.reply,
                                              "completed", call.messageId))
          /\ answer' = [status |-> 200, type |-> "application/json",
                        body |-> <<>>, error |-> ""]
       \/ /\ messageRows' = messageRows
          /\ answer' = JsonError(500, "insert failed")
    /\ call' = [call EXCEPT !.pc = "done"]
    /\ UNCHANGED <<runs, sent>>
    /\ UNCHANGED <<chatVars, fileVars>>

NextResponder ==
    \/ ResponderStarts
    \/ ResponderSelected
    \/ ResponderFetched
    \/ ResponderInserted

SpecResponder == InitResponder /\ [][NextResponder]_vars

\* the stored messages other than the one of the request, in creation order
OtherRows == SelectSeq(call.rows, LAMBDA m : m.id # call.messageId)

\* C36: every conversation ai-responder sends holds, after the system
\* message, the stored messages other than the one named by messageId, in
\* creation order, and then that message, as its last entry and nowhere
\* else; when no stored message has the id, the function returns 500, sends
\* nothing and inserts no AI message.
C36_CurrentMessageIsLast ==
    call.fn = "ai-responder" =>
        /\ \A n \in 1..Len(sent) :
              /\ Found(call.rows, call.messageId)
              /\ Len(sent[n].messages) = Len(call.rows) + 1
              /\ sent[n].messages[1] = SystemTurn
              /\ sent[n].messages[Len(sent[n].messages)]
                    = Msg("user", CurrentMessage(call.rows,
                                                 call.messageId).message_text)
              /\ \A j \in 1..Len(OtherRows) :
                    sent[n].messages[j + 1].content = OtherRows[j].message_text
        /\ (call.pc = "done" /\ call.method # "OPTIONS"
               /\ ~Found(messageRows, call.messageId))
              => /\ answer.status = 500
                 /\ sent = <<>>
                 /\ Len(messageRows) = call.stored

\* the reply to the first of two stored messages has been inserted: the
\* conversation sent ends with "hi", after "ok"
C36_Witness ==
    /\ call.fn = "ai-responder"
    /\ call.pc = "done"
    /\ call.messageId = 1
    /\ answer.status = 200
    /\ Len(messageRows) = 3
    /\ Len(sent) = 1
    /\ sent[1].messages = <<SystemTurn, Msg("user", TextOk), Msg("user", TextHi)>>

\* no stored message has the id of the request, and 500 has been returned
C36_WitnessNotFound ==
    /\ call.fn = "ai-responder"
    /\ call.pc = "done"
    /\ call.rows # <<>>
    /\ ~Found(messageRows, call.messageId)
    /\ answer.status = 500

=============================================================================
